---- MODULE Spec2Model ----
(***************************************************************************)
(* Verification model of the sorting-network checker                       *)
(*   apps/src-tauri/src/sorting_network_check_v2.rs                        *)
(* A 64-bit bitmap (State = u64) is modelled by the set of its set bit     *)
(* positions: x | y is x \cup y, x & y is x \cap y, (x >> i) & 1 is        *)
(* i \in x, and the numeric order of two bitmaps is decided by their       *)
(* highest differing bit.  Vec<bool> of length M is a function on 0..M-1.  *)
(* The array unsorted: [State; 64] is modelled by the set of the pairs     *)
(* <<i, j>> such that bit j of unsorted[i] is set.                         *)
(* Wall-clock fields (JobResult.time, the elapsed parts of the logs) are   *)
(* not modelled.                                                           *)
(***************************************************************************)
EXTENDS Integers, Sequences, FiniteSets, TLC

\* ------------------------------------------------------------------ bounds
\* Largest number of wires n of an input network (the program accepts 2..64).
MaxN == 4
\* Largest number of comparators M of an input network.
MaxM == 3
\* Length of one par_chunks_mut chunk.  The program uses 65536; the model
\* scales it down so that a Cmp job is split over several workers.
ChunkLen == 2

\* State::BITS
StateBITS == 64
\* usize::MAX, the size of the "no candidate" combine tuple; every real
\* candidate has size <= StateBITS, so any larger number behaves alike.
usize_MAX == 2147483647
\* u64::MAX, the progress_all of JobResult::new (the largest integer of the
\* model checker stands for it).
u64_MAX == 2147483647

Bits == 0 .. (StateBITS - 1)

\* ------------------------------------------------------------ bitmap order
SetMax(S) == CHOOSE x \in S : \A y \in S : y <= x

\* x < y as u64 values
StateLess(x, y) ==
    LET d == (x \ y) \cup (y \ x) IN d # {} /\ SetMax(d) \in y

\* (z1, o1) < (z2, o2) in the derived order of the tuple (State, State)
PairLess(p, q) == StateLess(p[1], q[1]) \/ (p[1] = q[1] /\ StateLess(p[2], q[2]))

\* [T]::sort_unstable on Vec<(State, State)>: the order is total and equal
\* elements are indistinguishable, so the result is the sorted sequence.
RECURSIVE sort_unstable(_)
sort_unstable(s) ==
    IF Len(s) <= 1 THEN s
    ELSE LET k == CHOOSE k \in 1..Len(s) : \A j \in 1..Len(s) : ~PairLess(s[j], s[k])
             rest == [j \in 1..(Len(s) - 1) |-> IF j < k THEN s[j] ELSE s[j + 1]]
         IN <<s[k]>> \o sort_unstable(rest)

\* Vec::dedup: removes consecutive repeated elements only.
RECURSIVE dedup(_)
dedup(s) ==
    IF Len(s) <= 1 THEN s
    ELSE LET d == dedup(Tail(s))
         IN IF s[1] = d[1] THEN d ELSE <<s[1]>> \o d

\* ---------------------------------------------------------------- DsuBySize
Size(k) == [k |-> "Size", v |-> k]
Parent(u) == [k |-> "Parent", v |-> u]

DsuNew(n) == [u \in 0..(n - 1) |-> Size(1)]

\* root_size returns (root, size) and compresses the path; dsu is the
\* structure after the call.
RECURSIVE root_size(_, _)
root_size(d, u) ==
    IF d[u].k = "Size" THEN [root |-> u, size |-> d[u].v, dsu |-> d]
    ELSE IF d[u].v = u THEN [root |-> u, size |-> 1, dsu |-> d]
    ELSE LET r == root_size(d, d[u].v)
         IN [root |-> r.root, size |-> r.size,
             dsu |-> [r.dsu EXCEPT ![u] = Parent(r.root)]]

\* Mutant of unite: of two components of equal size the first is hung under
\* the second, if size_u <= size_v { swap(u, v) }.
unite_ties_swapped(d, u0, v0) ==
    LET ru == root_size(d, u0)
        rv == root_size(ru.dsu, v0)
        u == ru.root
        v == rv.root
        d2 == rv.dsu
    IN IF u = v THEN [ok |-> FALSE, dsu |-> d2]
       ELSE IF ru.size <= rv.size
            THEN [ok |-> TRUE,
                  dsu |-> [d2 EXCEPT ![u] = Parent(v), ![v] = Size(ru.size + rv.size)]]
            ELSE [ok |-> TRUE,
                  dsu |-> [d2 EXCEPT ![v] = Parent(u), ![u] = Size(ru.size + rv.size)]]

\* Mutant of unite: the surviving root keeps its own size,
\* self.0[u] = Size(size_u).
unite_size_kept(d, u0, v0) ==
    LET ru == root_size(d, u0)
        rv == root_size(ru.dsu, v0)
        u == ru.root
        v == rv.root
        d2 == rv.dsu
    IN IF u = v THEN [ok |-> FALSE, dsu |-> d2]
       ELSE IF ru.size < rv.size
            THEN [ok |-> TRUE,
                  dsu |-> [d2 EXCEPT ![u] = Parent(v), ![v] = Size(rv.size)]]
            ELSE [ok |-> TRUE,
                  dsu |-> [d2 EXCEPT ![v] = Parent(u), ![u] = Size(ru.size)]]

unite(d, u0, v0) ==
    LET ru == root_size(d, u0)
        rv == root_size(ru.dsu, v0)
        u == ru.root
        v == rv.root
        d2 == rv.dsu
    IN IF u = v THEN [ok |-> FALSE, dsu |-> d2]
       ELSE IF ru.size < rv.size
            THEN [ok |-> TRUE,
                  dsu |-> [d2 EXCEPT ![u] = Parent(v), ![v] = Size(ru.size + rv.size)]]
            ELSE [ok |-> TRUE,
                  dsu |-> [d2 EXCEPT ![v] = Parent(u), ![u] = Size(ru.size + rv.size)]]

root(d, u) == root_size(d, u).root
size(d, u) == root_size(d, u).size
equiv(d, u, v) == root(d, u) = root(root_size(d, u).dsu, v)
\* the structure after the path compressions of calls on u and then on v
compressed(d, u, v) == root_size(root_size(d, u).dsu, v).dsu

\* ------------------------------------------------------------ verify_strategy
CeEntry(cei, a, b) == [cei |-> cei, a |-> a, b |-> b]
CmpJob(r, ces) == [kind |-> "Cmp", root |-> r, cmp_part |-> ces]
CombineJob(m, s) == [kind |-> "Combine", root_master |-> m, root_slave |-> s]

\* the comparator with 0-based index i
CmpAt(cmp, i) == cmp[i + 1]

\* Mutant of Xor3: the slave is the root that survived, root_master.
Xor3_master(root_a, root_b, root_master) == root_master

\* root_a ^ root_b ^ root_master, for root_master one of root_a and root_b
\* (unite keeps one of the two roots)
Xor3(root_a, root_b, root_master) == IF root_master = root_a THEN root_b ELSE root_a

\* Ord::min on (usize, usize, usize)
TupleLess(x, y) ==
    \/ x[1] < y[1]
    \/ x[1] = y[1] /\ x[2] < y[2]
    \/ x[1] = y[1] /\ x[2] = y[2] /\ x[3] < y[3]

\* Mutant of TupleMin: the candidate is replaced only by one with a smaller
\* root_a (the rule left commented out at lines 213-217).
TupleMin_by_root(x, y) == IF x[1] = usize_MAX \/ x[2] > y[2] THEN y ELSE x

TupleMin(x, y) == IF TupleLess(y, x) THEN y ELSE x

\* Mutant of scan_layer: a comparator put into a bucket leaves node_avail as
\* it is.
RECURSIVE scan_layer_free(_, _, _)
scan_layer_free(cmp, i, s) ==
    IF i >= Len(cmp) THEN s
    ELSE IF Cardinality(s.node_avail) < 2 THEN s
    ELSE IF s.cmp_layered[i] THEN scan_layer_free(cmp, i + 1, s)
    ELSE
      LET a == CmpAt(cmp, i)[1]
          b == CmpAt(cmp, i)[2]
          node_unavail == ~(a \in s.node_avail /\ b \in s.node_avail)
          avail == s.node_avail \ {a, b}
      IN IF node_unavail
         THEN scan_layer_free(cmp, i + 1, [s EXCEPT !.node_avail = avail])
         ELSE IF equiv(s.dsu, a, b)
         THEN LET d == compressed(s.dsu, a, b)
                  root_a == root(d, a)
              IN scan_layer_free(cmp, i + 1,
                    [s EXCEPT !.layer[root_a] = Append(@, CeEntry(i, a, b)),
                              !.cmp_layered[i] = TRUE,
                              !.dsu = d])
         ELSE LET d == compressed(s.dsu, a, b)
                  ra == root_size(d, a)
                  rb == root_size(d, b)
              IN scan_layer_free(cmp, i + 1,
                    [s EXCEPT !.node_avail = avail,
                              !.combine = TupleMin(@, <<ra.size + rb.size, ra.root, rb.root>>),
                              !.dsu = d])

\* Mutant of scan_layer: a comparator that finds a wire taken leaves
\* node_avail as it is (the mask is cleared after the continue).
RECURSIVE scan_layer_keep(_, _, _)
scan_layer_keep(cmp, i, s) ==
    IF i >= Len(cmp) THEN s
    ELSE IF Cardinality(s.node_avail) < 2 THEN s
    ELSE IF s.cmp_layered[i] THEN scan_layer_keep(cmp, i + 1, s)
    ELSE
      LET a == CmpAt(cmp, i)[1]
          b == CmpAt(cmp, i)[2]
          node_unavail == ~(a \in s.node_avail /\ b \in s.node_avail)
          avail == s.node_avail \ {a, b}
      IN IF node_unavail
         THEN scan_layer_keep(cmp, i + 1, s)
         ELSE IF equiv(s.dsu, a, b)
         THEN LET d == compressed(s.dsu, a, b)
                  root_a == root(d, a)
              IN scan_layer_keep(cmp, i + 1,
                    [s EXCEPT !.node_avail = avail,
                              !.layer[root_a] = Append(@, CeEntry(i, a, b)),
                              !.cmp_layered[i] = TRUE,
                              !.dsu = d])
         ELSE LET d == compressed(s.dsu, a, b)
                  ra == root_size(d, a)
                  rb == root_size(d, b)
              IN scan_layer_keep(cmp, i + 1,
                    [s EXCEPT !.node_avail = avail,
                              !.combine = TupleMin(@, <<ra.size + rb.size, ra.root, rb.root>>),
                              !.dsu = d])

\* the scan of one layer: for (i, &(a, b)) in cmp.iter().enumerate().skip(cmp_skip)
RECURSIVE scan_layer(_, _, _)
scan_layer(cmp, i, s) ==
    IF i >= Len(cmp) THEN s
    ELSE IF Cardinality(s.node_avail) < 2 THEN s
    ELSE IF s.cmp_layered[i] THEN scan_layer(cmp, i + 1, s)
    ELSE
      LET a == CmpAt(cmp, i)[1]
          b == CmpAt(cmp, i)[2]
          node_unavail == ~(a \in s.node_avail /\ b \in s.node_avail)
          avail == s.node_avail \ {a, b}
      IN IF node_unavail
         THEN scan_layer(cmp, i + 1, [s EXCEPT !.node_avail = avail])
         ELSE IF equiv(s.dsu, a, b)
         THEN LET d == compressed(s.dsu, a, b)
                  root_a == root(d, a)
              IN scan_layer(cmp, i + 1,
                    [s EXCEPT !.node_avail = avail,
                              !.layer[root_a] = Append(@, CeEntry(i, a, b)),
                              !.cmp_layered[i] = TRUE,
                              !.dsu = d])
         ELSE LET d == compressed(s.dsu, a, b)
                  ra == root_size(d, a)
                  rb == root_size(d, b)
              IN scan_layer(cmp, i + 1,
                    [s EXCEPT !.node_avail = avail,
                              !.combine = TupleMin(@, <<ra.size + rb.size, ra.root, rb.root>>),
                              !.dsu = d])

\* Mutant of cmp_jobs: one job per bucket, the empty ones too (no filter).
RECURSIVE cmp_jobs_unfiltered(_, _, _)
cmp_jobs_unfiltered(layer, r, n) ==
    IF r >= n THEN <<>>
    ELSE <<CmpJob(r, layer[r])>> \o cmp_jobs_unfiltered(layer, r + 1, n)

\* one VerifyJob::Cmp per non-empty bucket, in root order
RECURSIVE cmp_jobs(_, _, _)
cmp_jobs(layer, r, n) ==
    IF r >= n THEN <<>>
    ELSE (IF layer[r] # <<>> THEN <<CmpJob(r, layer[r])>> ELSE <<>>)
         \o cmp_jobs(layer, r + 1, n)

\* Mutant of layered_prefix: every remaining comparator is counted as layered.
layered_prefix_all(cmp_layered, i, m) == m - i

\* cmp_layered.iter().skip(cmp_skip).take_while(|&&f| f).count()
RECURSIVE layered_prefix(_, _, _)
layered_prefix(cmp_layered, i, m) ==
    IF i < m /\ cmp_layered[i] THEN 1 + layered_prefix(cmp_layered, i + 1, m) ELSE 0

\* the planner's locals before the while loop (lines 180-183);
\* p = [cmp_layered, cmp_skip, dsu, layers, early]; early records that the loop
\* was left by the break on an empty layer without a combine candidate.
StrategyNew(n, cmp) ==
    [cmp_layered |-> [i \in 0..(Len(cmp) - 1) |-> FALSE],
     cmp_skip |-> 0,
     dsu |-> DsuNew(n),
     layers |-> <<>>,
     early |-> FALSE]

\* one iteration of the while loop of verify_strategy (lines 185-247)
strategy_step(n, cmp, p) ==
    LET s == scan_layer(cmp, p.cmp_skip,
               [node_avail |-> 0..(n - 1),
                layer |-> [r \in 0..(n - 1) |-> <<>>],
                combine |-> <<usize_MAX, 0, 0>>,
                cmp_layered |-> p.cmp_layered,
                dsu |-> p.dsu])
    IN IF \A r \in 0..(n - 1) : s.layer[r] = <<>>
       THEN IF s.combine[1] = usize_MAX
            THEN [p EXCEPT !.dsu = s.dsu, !.early = TRUE]
            ELSE LET root_a == s.combine[2]
                     root_b == s.combine[3]
                     u == unite(s.dsu, root_a, root_b)
                     root_master == root(u.dsu, root_a)
                     root_slave == Xor3(root_a, root_b, root_master)
                 IN [p EXCEPT !.dsu = root_size(u.dsu, root_a).dsu,
                              !.layers = Append(@, CombineJob(root_master, root_slave))]
       ELSE [p EXCEPT !.cmp_layered = s.cmp_layered,
                      !.dsu = s.dsu,
                      !.layers = @ \o cmp_jobs(s.layer, 0, n),
                      !.cmp_skip = @ + layered_prefix(s.cmp_layered, p.cmp_skip, Len(cmp))]

\* while cmp_skip < cmp.len() { ... }, left early by the break
strategy_running(cmp, p) == p.cmp_skip < Len(cmp) /\ ~p.early

RECURSIVE strategy_loop(_, _, _)
strategy_loop(n, cmp, p) ==
    IF strategy_running(cmp, p) THEN strategy_loop(n, cmp, strategy_step(n, cmp, p)) ELSE p

strategy_run(n, cmp) == strategy_loop(n, cmp, StrategyNew(n, cmp))

verify_strategy(n, cmp) == strategy_run(n, cmp).layers

\* ------------------------------------------------- execute_job_v2: Cmp worker
\* x ^ mask
Xor(x, mask) == (x \ mask) \cup (mask \ x)

\* Mutant of SwapBits: the forced exchange leaves the bitmap as it is.
SwapBits_none(x, a, b) == x

\* Mutant of SwapBits: the two bits are cleared where they differ,
\* x &= !(xz << a | xz << b).
SwapBits_clear(x, a, b) == IF (a \in x) # (b \in x) THEN x \ {a, b} ELSE x

\* exchange of the bits a and b of x:
\*   let xz = ((x >> a) ^ (x >> b)) & 1;  x ^= xz << a | xz << b
SwapBits(x, a, b) == IF (a \in x) # (b \in x) THEN Xor(x, {a, b}) ELSE x

\* Mutant of inplace_arm: a forced exchange is applied without marking the
\* comparator used.
RECURSIVE inplace_arm_unmarked(_, _, _, _, _, _)
inplace_arm_unmarked(cmp_part, i, z, o, stack, used_cmp_local) ==
    IF i >= Len(cmp_part)
    THEN [z |-> z, o |-> o, stack |-> stack, used |-> used_cmp_local]
    ELSE LET cei == cmp_part[i + 1].cei
             a == cmp_part[i + 1].a
             b == cmp_part[i + 1].b
         IN IF ~(a \in o /\ b \in z)
            THEN inplace_arm_unmarked(cmp_part, i + 1, z, o, stack, used_cmp_local)
            ELSE IF ~(a \in z /\ b \in o)
            THEN inplace_arm_unmarked(cmp_part, i + 1, SwapBits(z, a, b), SwapBits(o, a, b),
                                      stack, used_cmp_local)
            ELSE inplace_arm_unmarked(cmp_part, i + 1, Xor(z, {b}), o,
                                      Append(stack, <<i + 1, z, Xor(Xor(o, {a}), {b})>>),
                                      [used_cmp_local EXCEPT ![cei] = TRUE])

\* The in-place arm: one state (z, o) of the chunk through cmp_part from
\* entry i (0-based); a branch pushes (i + 1, z, o ^ 1<<a ^ 1<<b) on the stack.
RECURSIVE inplace_arm(_, _, _, _, _, _)
inplace_arm(cmp_part, i, z, o, stack, used_cmp_local) ==
    IF i >= Len(cmp_part)
    THEN [z |-> z, o |-> o, stack |-> stack, used |-> used_cmp_local]
    ELSE LET cei == cmp_part[i + 1].cei
             a == cmp_part[i + 1].a
             b == cmp_part[i + 1].b
         IN IF ~(a \in o /\ b \in z)
            THEN inplace_arm(cmp_part, i + 1, z, o, stack, used_cmp_local)
            ELSE IF ~(a \in z /\ b \in o)
            THEN inplace_arm(cmp_part, i + 1, SwapBits(z, a, b), SwapBits(o, a, b),
                             stack, [used_cmp_local EXCEPT ![cei] = TRUE])
            ELSE inplace_arm(cmp_part, i + 1, Xor(z, {b}), o,
                             Append(stack, <<i + 1, z, Xor(Xor(o, {a}), {b})>>),
                             [used_cmp_local EXCEPT ![cei] = TRUE])

\* for st in states_chunk.iter_mut(): the chunk from its k-th state (1-based)
RECURSIVE inplace_chunk(_, _, _, _, _)
inplace_chunk(cmp_part, chunk, k, stack, used_cmp_local) ==
    IF k > Len(chunk)
    THEN [chunk |-> chunk, stack |-> stack, used |-> used_cmp_local]
    ELSE LET r == inplace_arm(cmp_part, 0, chunk[k][1], chunk[k][2], stack, used_cmp_local)
         IN inplace_chunk(cmp_part, [chunk EXCEPT ![k] = <<r.z, r.o>>], k + 1,
                          r.stack, r.used)

\* The continuation arm: while let Some(&CeEntry{cei, a, b}) = cmp_part.get(i)
RECURSIVE stack_arm(_, _, _, _, _, _)
stack_arm(cmp_part, i, z, o, stack, used_cmp_local) ==
    IF i >= Len(cmp_part)
    THEN [z |-> z, o |-> o, stack |-> stack, used |-> used_cmp_local]
    ELSE LET cei == cmp_part[i + 1].cei
             a == cmp_part[i + 1].a
             b == cmp_part[i + 1].b
         IN IF a \notin o \/ b \notin z
            THEN stack_arm(cmp_part, i + 1, z, o, stack, used_cmp_local)
            ELSE IF a \notin z \/ b \notin o
            THEN stack_arm(cmp_part, i + 1, SwapBits(z, a, b), SwapBits(o, a, b),
                           stack, [used_cmp_local EXCEPT ![cei] = TRUE])
            ELSE stack_arm(cmp_part, i + 1, Xor(z, {b}), o,
                           Append(stack, <<i + 1, z, Xor(Xor(o, {a}), {b})>>),
                           [used_cmp_local EXCEPT ![cei] = TRUE])

\* while let Some((i, z, o)) = stack.pop() { ...; extend_states.push((z, o)) }
RECURSIVE pop_loop(_, _, _, _)
pop_loop(cmp_part, stack, extend_states, used_cmp_local) ==
    IF stack = <<>>
    THEN [ext |-> extend_states, used |-> used_cmp_local]
    ELSE LET top == stack[Len(stack)]
             r == stack_arm(cmp_part, top[1], top[2], top[3],
                            SubSeq(stack, 1, Len(stack) - 1), used_cmp_local)
         IN pop_loop(cmp_part, r.stack, Append(extend_states, <<r.z, r.o>>), r.used)

\* The closure run on one chunk.  cancelled is the value the worker reads
\* from cancel_state; the result is the chunk as the worker leaves it and
\* the pair (used_cmp_local, extend_states) it returns.
cmp_worker(cmp_part, m, chunk, cancelled) ==
    LET none == [cei \in 0..(m - 1) |-> FALSE]
    IN IF cancelled
       THEN [chunk |-> chunk, used |-> none, ext |-> <<>>]
       ELSE LET r1 == inplace_chunk(cmp_part, chunk, 1, <<>>, none)
                r2 == pop_loop(cmp_part, r1.stack, <<>>, r1.used)
            IN [chunk |-> r1.chunk, used |-> r2.used,
                ext |-> dedup(sort_unstable(r2.ext))]

\* par_chunks_mut(ChunkLen): the number of chunks of a vector of length len
NumChunks(len) == (len + ChunkLen - 1) \div ChunkLen
\* the 1-based positions of chunk c (0-based)
ChunkLo(c) == c * ChunkLen + 1
ChunkHi(c, len) == IF (c + 1) * ChunkLen < len THEN (c + 1) * ChunkLen ELSE len

\* ------------------------------------------------ execute_job_v2: finalization
\* Mutant of check_unsorted: the mask is MAX << i, which keeps bit i itself.
check_unsorted_from_i(unsorted, z, o) ==
    unsorted \cup {p \in o \X z : p[2] >= p[1]}

\* Mutant of check_unsorted: the mask is 0, no bit is recorded.
check_unsorted_none(unsorted, z, o) == unsorted

\* check_unsorted: for every bit i of o, unsorted[i] |= z & ((MAX << 1) << i)
check_unsorted(unsorted, z, o) ==
    unsorted \cup {p \in o \X z : p[2] > p[1]}

RECURSIVE check_all(_, _, _)
check_all(unsorted, states_par_root, k) ==
    IF k > Len(states_par_root) THEN unsorted
    ELSE check_all(check_unsorted(unsorted, states_par_root[k][1], states_par_root[k][2]),
                   states_par_root, k + 1)

\* Mutant of check_root: the pairs (q_mask, nq_mask) and (nq_mask, q_mask) are
\* not checked.
check_root_states_only(unsorted, states_par_root, n) ==
    check_all(unsorted, states_par_root, 1)

\* the body of  for states_par_root in states.iter()
check_root(unsorted, states_par_root, n) ==
    LET n_mask == 0..(n - 1)
        q_mask == IF states_par_root = <<>> THEN {}
                  ELSE states_par_root[1][1] \cup states_par_root[1][2]
        nq_mask == Xor(n_mask, q_mask)
        u1 == check_unsorted(unsorted, q_mask, nq_mask)
        u2 == check_unsorted(u1, nq_mask, q_mask)
    IN check_all(u2, states_par_root, 1)

\* for states_par_root in states.iter(), from root r on: every step only ORs
\* bits into unsorted, so the map is the union of what each root adds
check_roots(unsorted, sts, r, n) ==
    unsorted \cup UNION {check_root({}, sts[x], n) : x \in r..(n - 1)}

\* ------------------------------------------------------------------ JobResult
JobResultNew(cmp) ==
    [progress |-> 0,
     progress_all |-> u64_MAX,
     used |-> [cei \in 0..(Len(cmp) - 1) |-> FALSE],
     unsorted |-> {},
     log |-> <<>>]

\* self.unsorted.iter().all(|&f| f == 0)
is_sorting_network(res) == \A i \in Bits : ~\E p \in res.unsorted : p[1] = i

get_unused(res) == [cei \in DOMAIN res.used |-> ~res.used[cei]]

\* Mutant of get_unsorted_adjacent: the test is & 1, bit i of unsorted[i].
get_unsorted_adjacent_bit_i(res) == {i \in 0..(StateBITS - 2) : <<i, i>> \in res.unsorted}

\* ((self.unsorted[i] >> i) & 2) != 0  for i in 0..BITS-1
get_unsorted_adjacent(res) == {i \in 0..(StateBITS - 2) : <<i, i + 1>> \in res.unsorted}

get_unsorted_allpairs(res) == {p \in res.unsorted : p[1] \in Bits /\ p[2] \in Bits}

\* -------------------------------------------------------------- parse_network
\* A text is the sequence of its tokens and line terminators: a token is a
\* maximal run of characters that are not ASCII whitespace, NL is "\n"; the
\* blanks between two tokens of a line are not represented.
NL == "\n"

\* str::lines(): the pieces between line terminators; a final terminator does
\* not open a further line, the empty text has no line.
RECURSIVE lines(_)
lines(text) ==
    IF text = <<>> THEN <<>>
    ELSE IF \E k \in 1..Len(text) : text[k] = NL
    THEN LET k == CHOOSE k \in 1..Len(text) :
                     text[k] = NL /\ \A j \in 1..(k - 1) : text[j] # NL
         IN <<SubSeq(text, 1, k - 1)>> \o lines(SubSeq(text, k + 1, Len(text)))
    ELSE <<text>>

\* usize::from_str on the tokens of the model: decimal digits, with an
\* optional leading "+" and leading zeros, give the number; "x", "-1" and "2.0"
\* are rejected.
NumericValue ==
    [t \in {"0", "1", "2", "3", "4", "7", "64", "65", "+2", "02"} |->
        CASE t = "0" -> 0 [] t = "1" -> 1 [] t = "2" -> 2 [] t = "3" -> 3 [] t = "4" -> 4
          [] t = "7" -> 7 [] t = "64" -> 64 [] t = "65" -> 65 [] t = "+2" -> 2
          [] t = "02" -> 2]

parse_usize(t) ==
    IF t \in DOMAIN NumericValue THEN [ok |-> TRUE, v |-> NumericValue[t]]
    ELSE [ok |-> FALSE]

Ok(k, m, c) == [called |-> TRUE, ok |-> TRUE, n |-> k, m |-> m, cmp |-> c]
Err(e) == [called |-> TRUE, ok |-> FALSE, err |-> e]

\* Mutant of zero_based: the indices are kept 1-based.
zero_based_kept(a, b) == <<a, b>>

\* .map(|(&a, &b)| (a - 1, b - 1))
zero_based(a, b) == <<a - 1, b - 1>>

\* a.iter().zip(b.iter()).map(..).collect()
zip_cmp(a, b) == [i \in 1..Len(a) |-> zero_based(a[i], b[i])]

\* .map(|x| x.parse()).collect::<Result<Vec<usize>, String>>()
parse_all(line) == [i \in 1..Len(line) |-> parse_usize(line[i])]
all_ok(ps) == \A i \in 1..Len(ps) : ps[i].ok
values(ps) == [i \in 1..Len(ps) |-> ps[i].v]

\* parse_network, lines 538-586
parse_network(text) ==
    LET ls == lines(text)
    IN IF Len(ls) < 1 THEN Err("empty input")
       ELSE LET w == ls[1]
            IN IF Len(w) < 1 THEN Err("missing n")
               ELSE IF ~parse_usize(w[1]).ok THEN Err("parseint failed n")
               ELSE LET k == parse_usize(w[1]).v
                    IN IF k < 2 \/ k > 64 THEN Err("invalid n")
                       ELSE IF Len(w) < 2 THEN Err("missing m")
                       ELSE IF ~parse_usize(w[2]).ok THEN Err("parseint failed m")
                       ELSE LET m == parse_usize(w[2]).v
                            IN IF Len(ls) < 2 THEN Err("missing a")
                               ELSE IF ~all_ok(parse_all(ls[2])) THEN Err("parseint failed a")
                               ELSE IF Len(ls) < 3 THEN Err("missing a")
                               ELSE IF ~all_ok(parse_all(ls[3])) THEN Err("parseint failed b")
                               ELSE LET a == values(parse_all(ls[2]))
                                        b == values(parse_all(ls[3]))
                                    IN IF \/ Len(a) # m
                                          \/ Len(b) # m
                                          \/ \E i \in 1..Len(a) : a[i] < 1 \/ a[i] > k
                                          \/ \E i \in 1..Len(b) : b[i] < 1 \/ b[i] > k
                                       THEN Err("invalid input")
                                       ELSE IF \E i \in 1..m :
                                                  zip_cmp(a, b)[i][1] >= zip_cmp(a, b)[i][2]
                                       THEN Err("invalid comparators")
                                       ELSE Ok(k, m, zip_cmp(a, b))

\* ---------------------------------------------------------------- the state
VARIABLES
    n,                \* number of wires of the network under verification
    cmp,              \* its comparators (a, b), 0-based, in input order
    pc,               \* position of the producer thread of execute_job_v2
    plan,             \* the jobs returned by verify_strategy
    job,              \* 1-based index in plan of the current / next job
    result,           \* the JobResult the producer sends snapshots of
    checked_cmp,      \* Vec<bool> checked_cmp
    used_cmp,         \* Vec<bool> used_cmp
    states,           \* states[root]: Vec<(State, State)>, a sequence of (z, o)
    dsu,              \* the executor's DsuBySize
    par,              \* per parallel work item: its result, or done |-> FALSE
    united_status,    \* the product vector a Combine job fills
    loc,              \* locals of the current job used by the log line
    msgs,             \* everything sent on progress_tx so far, in order
    cancel_state,     \* the Arc<Mutex<bool>> handed to execute_job_v2
    future_cancel,    \* the Arc<Mutex<bool>> stored in JobResultFuture
    rx_alive,         \* the JobResultFuture (and its Receiver) is not dropped
    cancel_seen,      \* history: what the producer had done when cancel() was first called
    strategy,         \* the locals of verify_strategy while it is run step by step
    verify_id,        \* the managed Mutex<SortingNetworkVerifyId> of the host
    host_pc,          \* position of one invocation of sorting_network_verify
    rx_pos,           \* number of messages that invocation has received from the channel
    progress_update,  \* its local progress_update (the event to emit next)
    last_progress,    \* its local last_progress
    emitted,          \* the events it has emitted on "checkprogress", in order
    newer_seen,       \* history: Len(emitted) when a later invocation stored its id
    net,              \* the argument net: String of sorting_network_verify
    parsed,           \* what parse_network(&net) returned, once it was called
    arms              \* one state (z, o) and what each arm of the Cmp worker makes of it

vars == <<n, cmp, pc, plan, job, result, checked_cmp, used_cmp, states, dsu, par,
          united_status, loc, msgs, cancel_state, future_cancel, rx_alive, cancel_seen,
          strategy, verify_id, host_pc, rx_pos, progress_update, last_progress, emitted,
          newer_seen, net, parsed, arms>>

\* variables of the producer thread apart from pc and msgs
work == <<plan, job, result, checked_cmp, used_cmp, states, dsu, par, united_status, loc>>
\* variables of the holder of the JobResultFuture
holder == <<future_cancel, rx_alive, cancel_seen>>
\* variables of the invocation of sorting_network_verify
host == <<verify_id, host_pc, rx_pos, progress_update, last_progress, emitted, newer_seen,
          net, parsed, arms>>
\* the text handed to the command and its parse
input == <<net, parsed, arms>>

Progress(res) == [type |-> "Progress", result |-> res]
Log(text) == [type |-> "Log", log |-> text]
Done == [type |-> "Done"]
Cancel == [type |-> "Cancel"]

\* no event is held
NoEvent == [type |-> "None"]

NoLoc == [conn_nodes |-> 0, pre_len |-> 0, ext_len |-> 0, gen_len |-> 0]
Pending == [done |-> FALSE]

\* the comparator lists of length len over the wires 0..k-1
Comparators(k) == {<<a, b>> : a \in 0..(k - 1), b \in 0..(k - 1)} \cap
                  {p \in (0..(k - 1)) \X (0..(k - 1)) : p[1] < p[2]}
Networks(k) == UNION {[1..len -> Comparators(k)] : len \in 0..MaxM}

\* the networks of the scenarios S1 .. S4 as parse_network returns them
\* (0-based comparators)
ScenarioS1 == [n |-> 2, cmp |-> << <<0, 1>> >>]
ScenarioS2 == [n |-> 3, cmp |-> << <<0, 1>>, <<1, 2>>, <<0, 1>> >>]
ScenarioS3 == [n |-> 4, cmp |-> << <<0, 1>>, <<2, 3>>, <<0, 2>>, <<1, 3>>, <<2, 3>>, <<0, 1>> >>]
ScenarioS4 == [n |-> 4, cmp |-> << <<0, 2>>, <<1, 3>> >>]

\* parse_network has not been called
NotParsed == [called |-> FALSE]

\* no state is under one of the arms
NoArms == [z |-> {}, o |-> {}, inplace |-> Pending, stack |-> Pending]

\* All variables for the network (k, c), the producer at producer_at, the
\* command at host_at and the text it was given.
InitAll(k, c, producer_at, host_at, text, state) ==
    /\ net = text
    /\ parsed = NotParsed
    /\ arms = state
    /\ n = k
    /\ cmp = c
    /\ pc = producer_at
    /\ plan = <<>>
    /\ job = 1
    /\ result = JobResultNew(c)
    /\ checked_cmp = [cei \in 0..(Len(c) - 1) |-> FALSE]
    /\ used_cmp = [cei \in 0..(Len(c) - 1) |-> FALSE]
    /\ states = [i \in 0..(k - 1) |-> <<>>]
    /\ dsu = DsuNew(k)
    /\ par = <<>>
    /\ united_status = <<>>
    /\ loc = NoLoc
    /\ msgs = <<>>
    /\ cancel_state = FALSE
    /\ future_cancel = FALSE
    /\ rx_alive = TRUE
    /\ cancel_seen = <<>>
    /\ strategy = StrategyNew(k, c)
    /\ verify_id = 0
    /\ host_pc = host_at
    /\ rx_pos = 0
    /\ progress_update = NoEvent
    /\ last_progress = JobResultNew(c)
    /\ emitted = <<>>
    /\ newer_seen = <<>>

\* The state after is_sorting_network_future_v2 returned: the channel and the
\* two flags exist, the producer thread is spawned and has not run yet; the
\* future is in the hands of a holder that is not the host command, no text
\* is involved.
InitWith(k, c) == InitAll(k, c, "spawn", "none", <<>>, NoArms)

\* every network within the bounds, and the network of S3, whose plan has
\* Cmp jobs of two entries
Init ==
    \/ \E k \in 2..MaxN : \E c \in Networks(k) : InitWith(k, c)
    \/ InitWith(ScenarioS3.n, ScenarioS3.cmp)

\* Mutant of Send: the Err of send is ignored, .ok() in place of .unwrap().
Send_ignoring_error(m, next) ==
    IF rx_alive THEN msgs' = Append(msgs, m) /\ pc' = next
    ELSE msgs' = msgs /\ pc' = next

\* progress_tx.send(m).unwrap(): the message is queued, or the thread panics
\* when the Receiver is gone.
Send(m, next) ==
    IF rx_alive THEN msgs' = Append(msgs, m) /\ pc' = next
    ELSE msgs' = msgs /\ pc' = "panicked"

\* Mutant of SendCancel: Cancel is sent and the job loop goes on.
SendCancel_no_return == Send(Cancel, "loop") /\ UNCHANGED work

\* if *cancel_state.lock().unwrap() { progress_tx.send(Cancel).unwrap(); return; }
SendCancel == Send(Cancel, "returned") /\ UNCHANGED work

\* ------------------------------------------------------------ producer steps
\* lines 260-271: the first Progress, then (unless the send panicked) the
\* executor's own state and the plan
Start ==
    /\ pc = "spawn"
    /\ LET r == [JobResultNew(cmp) EXCEPT !.progress_all = Len(cmp) + 1]
       IN /\ result' = r
          /\ Send(Progress(r), "loop")
    /\ IF rx_alive
       THEN /\ checked_cmp' = [cei \in 0..(Len(cmp) - 1) |-> FALSE]
            /\ used_cmp' = [cei \in 0..(Len(cmp) - 1) |-> FALSE]
            /\ states' = [i \in 0..(n - 1) |-> << <<{i}, {i}>> >>]
            /\ dsu' = DsuNew(n)
            /\ plan' = verify_strategy(n, cmp)
            /\ job' = 1
       ELSE UNCHANGED <<checked_cmp, used_cmp, states, dsu, plan, job>>
    /\ UNCHANGED <<n, cmp, par, united_status, loc, cancel_state>>
    /\ UNCHANGED <<holder, strategy, host>>

\* the Combine arm up to the parallel fill (lines 284-297)
BeginCombine(j) ==
    LET root_master == j.root_master
        root_slave == j.root_slave
        conn_m == size(dsu, root_master)
        d1 == root_size(dsu, root_master).dsu
        conn_s == size(d1, root_slave)
        d2 == root_size(d1, root_slave).dsu
        u == unite(d2, root_master, root_slave)
        master_len == Len(states[root_master])
        slave_len == Len(states[root_slave])
    IN /\ dsu' = root_size(u.dsu, root_master).dsu
       /\ loc' = [NoLoc EXCEPT !.conn_nodes = <<conn_m, conn_s>>]
       /\ united_status' = [k \in 1..(master_len * slave_len) |-> <<{}, {}>>]
       \* par_chunks_mut(0) panics
       /\ IF master_len = 0
          THEN pc' = "panicked" /\ par' = par
          ELSE pc' = "combine" /\ par' = [k \in 0..(slave_len - 1) |-> Pending]
       /\ UNCHANGED <<plan, job, result, checked_cmp, used_cmp, states, msgs>>

\* the Cmp arm up to the parallel scan (lines 327-343)
BeginCmp(j) ==
    /\ loc' = [conn_nodes |-> size(dsu, j.root), pre_len |-> Len(states[j.root]),
               ext_len |-> 0, gen_len |-> 0]
    /\ dsu' = root_size(dsu, j.root).dsu
    /\ par' = [c \in 0..(NumChunks(Len(states[j.root])) - 1) |-> Pending]
    /\ pc' = "scan"
    /\ UNCHANGED <<plan, job, result, checked_cmp, used_cmp, states, united_status, msgs>>

\* the head of  for job in verify_strategy(n, &cmp)  (lines 272-279, 326)
JobBoundary ==
    /\ pc = "loop"
    /\ job <= Len(plan)
    /\ IF cancel_state THEN SendCancel
       ELSE IF plan[job].kind = "Combine" THEN BeginCombine(plan[job])
       ELSE BeginCmp(plan[job])
    /\ UNCHANGED <<n, cmp, cancel_state>>
    /\ UNCHANGED <<holder, strategy, host>>

\* Mutant of fill_chunk: the ones of the slave's element are left out,
\* *united_status = (sz | mz, mo).
fill_chunk_master_o(us, master, slave_elem, k) ==
    [x \in 1..Len(us) |->
        IF x > k * Len(master) /\ x <= (k + 1) * Len(master)
        THEN LET mst == master[x - k * Len(master)]
             IN <<slave_elem[1] \cup mst[1], mst[2]>>
        ELSE us[x]]

\* one work item of united_status.par_chunks_mut(master_len).zip(slave.par_iter()):
\* chunk k of the product is filled from slave element k (lines 299-306)
fill_chunk(us, master, slave_elem, k) ==
    [x \in 1..Len(us) |->
        IF x > k * Len(master) /\ x <= (k + 1) * Len(master)
        THEN LET mst == master[x - k * Len(master)]
             IN <<slave_elem[1] \cup mst[1], slave_elem[2] \cup mst[2]>>
        ELSE us[x]]

CombineWorker(k) ==
    /\ pc = "combine"
    /\ k \in DOMAIN par
    /\ ~par[k].done
    /\ united_status' = fill_chunk(united_status, states[plan[job].root_master],
                                   states[plan[job].root_slave][k + 1], k)
    /\ par' = [par EXCEPT ![k] = [done |-> TRUE]]
    /\ UNCHANGED <<n, cmp, pc, plan, job, result, checked_cmp, used_cmp, states, dsu,
                   loc, msgs, cancel_state>>
    /\ UNCHANGED <<holder, strategy, host>>

\* lines 316-324: the product replaces the master's states, the Log is sent
CombineFinish ==
    /\ pc = "combine"
    /\ \A k \in DOMAIN par : par[k].done
    /\ LET root_master == plan[job].root_master
           root_slave == plan[job].root_slave
           master_len == Len(states[root_master])
           slave_len == Len(states[root_slave])
       IN /\ states' = [states EXCEPT ![root_slave] = <<>>, ![root_master] = united_status]
          /\ Send(Log(<<"Combining", loc.conn_nodes[1], loc.conn_nodes[2],
                        size(dsu, root_master), root_master, root_slave,
                        master_len, slave_len, Len(united_status)>>), "loop")
    /\ job' = IF rx_alive THEN job + 1 ELSE job
    /\ par' = <<>>
    /\ united_status' = <<>>
    /\ loc' = NoLoc
    /\ UNCHANGED <<n, cmp, plan, result, checked_cmp, used_cmp, dsu, cancel_state>>
    /\ UNCHANGED <<holder, strategy, host>>

\* the closure of map_with on chunk c of states[root] (lines 344-404)
CmpWorker(c) ==
    /\ pc = "scan"
    /\ c \in DOMAIN par
    /\ ~par[c].done
    /\ LET rt == plan[job].root
           len == Len(states[rt])
           lo == ChunkLo(c)
           hi == ChunkHi(c, len)
           w == cmp_worker(plan[job].cmp_part, Len(cmp), SubSeq(states[rt], lo, hi),
                           cancel_state)
       IN /\ states' = [states EXCEPT ![rt] =
                          [x \in 1..len |-> IF x >= lo /\ x <= hi THEN w.chunk[x - lo + 1]
                                            ELSE @[x]]]
          /\ par' = [par EXCEPT ![c] = [done |-> TRUE, used |-> w.used, ext |-> w.ext]]
    /\ UNCHANGED <<n, cmp, pc, plan, job, result, checked_cmp, used_cmp, dsu,
                   united_status, loc, msgs, cancel_state>>
    /\ UNCHANGED <<holder, strategy, host>>

\* Mutant of or_used: *uroot = ue, so the mask of the last chunk replaces used_cmp.
RECURSIVE or_used_assign(_, _, _)
or_used_assign(used, results, c) ==
    IF c \notin DOMAIN results THEN used
    ELSE or_used_assign(results[c].used, results, c + 1)

\* lines 413-417: every local mask is OR-ed into used_cmp
RECURSIVE or_used(_, _, _)
or_used(used, results, c) ==
    IF c \notin DOMAIN results THEN used
    ELSE or_used([cei \in DOMAIN used |-> used[cei] \/ results[c].used[cei]], results, c + 1)

\* Mutant of extend_all: only the extension of the first chunk is appended.
extend_all_first(results, c) ==
    IF c \notin DOMAIN results THEN <<>> ELSE results[c].ext

\* lines 419-423: the extensions of the chunks, in chunk order
RECURSIVE extend_all(_, _)
extend_all(results, c) ==
    IF c \notin DOMAIN results THEN <<>>
    ELSE results[c].ext \o extend_all(results, c + 1)

\* lines 406-423: after the scan
AfterScan ==
    /\ pc = "scan"
    /\ \A c \in DOMAIN par : par[c].done
    /\ IF cancel_state THEN SendCancel
       ELSE LET rt == plan[job].root
                ext == extend_all(par, 0)
            IN /\ used_cmp' = or_used(used_cmp, par, 0)
               /\ states' = [states EXCEPT ![rt] = @ \o ext]
               /\ loc' = [loc EXCEPT !.ext_len = Len(ext)]
               /\ par' = <<>>
               /\ pc' = "extended"
               /\ UNCHANGED <<plan, job, result, checked_cmp, dsu, united_status, msgs>>
    /\ UNCHANGED <<n, cmp, cancel_state>>
    /\ UNCHANGED <<holder, strategy, host>>

\* Mutant of update_result: progress is incremented once per job.
update_result_once ==
    /\ result' = [result EXCEPT !.used = used_cmp, !.progress = @ + 1]
    /\ checked_cmp' = [cei \in DOMAIN checked_cmp |->
                         checked_cmp[cei] \/ \E e \in 1..Len(plan[job].cmp_part) :
                                                plan[job].cmp_part[e].cei = cei]

\* lines 454-458: result.used, result.progress, checked_cmp
update_result ==
    /\ result' = [result EXCEPT !.used = used_cmp,
                                !.progress = @ + Len(plan[job].cmp_part)]
    /\ checked_cmp' = [cei \in DOMAIN checked_cmp |->
                         checked_cmp[cei] \/ \E e \in 1..Len(plan[job].cmp_part) :
                                                plan[job].cmp_part[e].cei = cei]

\* lines 424-434 and, without extension, 452-458
AfterExtend ==
    /\ pc = "extended"
    /\ IF cancel_state THEN SendCancel
       ELSE IF loc.ext_len > 0
       THEN /\ states' = [states EXCEPT ![plan[job].root] = sort_unstable(@)]
            /\ loc' = [loc EXCEPT !.gen_len = Len(states[plan[job].root])]
            /\ pc' = "sorted"
            /\ UNCHANGED <<plan, job, result, checked_cmp, used_cmp, dsu, par,
                           united_status, msgs>>
       ELSE /\ update_result
            /\ loc' = [loc EXCEPT !.gen_len = Len(states[plan[job].root])]
            /\ pc' = "updated"
            /\ UNCHANGED <<plan, job, used_cmp, states, dsu, par, united_status, msgs>>
    /\ UNCHANGED <<n, cmp, cancel_state>>
    /\ UNCHANGED <<holder, strategy, host>>

\* lines 436-443
AfterSort ==
    /\ pc = "sorted"
    /\ IF cancel_state THEN SendCancel
       ELSE /\ states' = [states EXCEPT ![plan[job].root] = dedup(@)]
            /\ pc' = "deduped"
            /\ UNCHANGED <<plan, job, result, checked_cmp, used_cmp, dsu, par,
                           united_status, loc, msgs>>
    /\ UNCHANGED <<n, cmp, cancel_state>>
    /\ UNCHANGED <<holder, strategy, host>>

\* lines 444-458
AfterDedup ==
    /\ pc = "deduped"
    /\ IF cancel_state THEN SendCancel
       ELSE /\ update_result
            /\ pc' = "updated"
            /\ UNCHANGED <<plan, job, used_cmp, states, dsu, par, united_status, loc, msgs>>
    /\ UNCHANGED <<n, cmp, cancel_state>>
    /\ UNCHANGED <<holder, strategy, host>>

\* Mutant of SendProgress: a Cmp job that produced no extension sends nothing.
SendProgress_if_extended ==
    /\ pc = "updated"
    /\ LET rt == plan[job].root
           r == [result EXCEPT !.log = <<"AppliedCE", loc.conn_nodes, rt, loc.pre_len,
                                         loc.gen_len, Len(states[rt]),
                                         plan[job].cmp_part>>]
       IN /\ result' = r
          /\ IF loc.ext_len > 0 THEN Send(Progress(r), "loop")
             ELSE msgs' = msgs /\ pc' = "loop"
          /\ job' = IF rx_alive \/ loc.ext_len = 0 THEN job + 1 ELSE job
          /\ loc' = NoLoc
          /\ UNCHANGED <<plan, checked_cmp, used_cmp, states, dsu, par, united_status>>
    /\ UNCHANGED <<n, cmp, cancel_state>>
    /\ UNCHANGED <<holder, strategy, host>>

\* lines 459-474: the Progress of a Cmp job
SendProgress ==
    /\ pc = "updated"
    /\ IF cancel_state THEN SendCancel
       ELSE LET rt == plan[job].root
                r == [result EXCEPT !.log = <<"AppliedCE", loc.conn_nodes, rt, loc.pre_len,
                                              loc.gen_len, Len(states[rt]),
                                              plan[job].cmp_part>>]
            IN /\ result' = r
               /\ Send(Progress(r), "loop")
               /\ job' = IF rx_alive THEN job + 1 ELSE job
               /\ loc' = NoLoc
               /\ UNCHANGED <<plan, checked_cmp, used_cmp, states, dsu, par, united_status>>
    /\ UNCHANGED <<n, cmp, cancel_state>>
    /\ UNCHANGED <<holder, strategy, host>>

\* count of TRUE entries of a Vec<bool>
CountTrue(f) == Cardinality({x \in DOMAIN f : f[x]})

\* lines 486-519: the unsorted map, the final Progress
Finalize ==
    /\ pc = "loop"
    /\ job > Len(plan)
    /\ LET uns == check_roots(result.unsorted, states, 0, n)
           r0 == [result EXCEPT !.unsorted = uns, !.progress = result.progress_all]
           r == [r0 EXCEPT !.log = <<"Finished", r0.progress, r0.progress_all,
                                     CountTrue(get_unused(r0)), Len(cmp),
                                     Cardinality(get_unsorted_allpairs(r0)),
                                     Cardinality(get_unsorted_adjacent(r0))>>]
       IN /\ result' = r
          /\ Send(Progress(r), "finished")
    /\ UNCHANGED <<n, cmp, plan, job, checked_cmp, used_cmp, states, dsu, par,
                   united_status, loc, cancel_state>>
    /\ UNCHANGED <<holder, strategy, host>>

\* Mutant of SendDone: Done is sent and the thread goes on instead of ending.
SendDone_no_return ==
    /\ pc = "finished"
    /\ Send(Done, "loop")
    /\ UNCHANGED <<n, cmp, cancel_state>>
    /\ UNCHANGED work
    /\ UNCHANGED <<holder, strategy, host>>

\* line 520
SendDone ==
    /\ pc = "finished"
    /\ Send(Done, "returned")
    /\ UNCHANGED <<n, cmp, cancel_state>>
    /\ UNCHANGED work
    /\ UNCHANGED <<holder, strategy, host>>

\* the producer thread
Producer ==
    \/ Start
    \/ JobBoundary
    \/ \E k \in DOMAIN par : CombineWorker(k)
    \/ CombineFinish
    \/ \E c \in DOMAIN par : CmpWorker(c)
    \/ AfterScan
    \/ AfterExtend
    \/ AfterSort
    \/ AfterDedup
    \/ SendProgress
    \/ Finalize
    \/ SendDone

Next == Producer

\* a verification whose JobResultFuture is kept and only received from
Spec == Init /\ [][Next]_vars

\* ------------------------------------------------ the holder of the future
\* the producer has not ended and jobs of the plan are still to be executed
JobsLeft ==
    \/ pc = "spawn" /\ verify_strategy(n, cmp) # <<>>
    \/ pc \in {"loop", "combine", "scan", "extended", "sorted", "deduped", "updated"}
       /\ job <= Len(plan)

\* JobResultFuture::cancel (lines 89-91) on the future built by
\* is_sorting_network_future_v2 (lines 529-535): the flag written is the one
\* stored in the future.  A repeated call writes true again and changes nothing.
CancelCall ==
    /\ rx_alive
    /\ ~future_cancel
    /\ future_cancel' = TRUE
    /\ cancel_seen' = <<[msgs |-> Len(msgs), jobs_left |-> JobsLeft]>>
    /\ UNCHANGED <<n, cmp, pc, msgs, cancel_state, rx_alive, strategy>>
    /\ UNCHANGED work
    /\ UNCHANGED host

\* the JobResultFuture goes out of scope: the Receiver is dropped
DropFuture ==
    /\ rx_alive
    /\ rx_alive' = FALSE
    /\ UNCHANGED <<n, cmp, pc, msgs, cancel_state, future_cancel, cancel_seen, strategy>>
    /\ UNCHANGED work
    /\ UNCHANGED host

InitFuture == \E sc \in {ScenarioS1, ScenarioS2, ScenarioS4} : InitWith(sc.n, sc.cmp)

NextFuture == Producer \/ CancelCall \/ DropFuture

\* a verification whose holder may call cancel() and may drop the future at any time
SpecFuture == InitFuture /\ [][NextFuture]_vars

\* ------------------------------------------------------- the scenarios
\* one round p of gen_oddeven: for i in ((p & 1)..(n - 1)).step_by(2)
oddeven_round(k, p) ==
    [x \in 1..((k - (p % 2)) \div 2) |-> <<(p % 2) + 2 * (x - 1), (p % 2) + 2 * (x - 1) + 1>>]

\* gen_oddeven: for p in 0..n, from round p on
RECURSIVE oddeven_from(_, _)
oddeven_from(k, p) ==
    IF p >= k THEN <<>> ELSE oddeven_round(k, p) \o oddeven_from(k, p + 1)

gen_oddeven(k) == oddeven_from(k, 0)

ScenarioS5 == [n |-> 5, cmp |-> gen_oddeven(5)]

InitScenario ==
    \E sc \in {ScenarioS1, ScenarioS2, ScenarioS3, ScenarioS4, ScenarioS5} :
        InitWith(sc.n, sc.cmp)

\* the verifications of the scenarios S1 .. S5, the future kept
SpecScenario == InitScenario /\ [][Next]_vars

\* three networks of five comparators on four wires, as parse_network returns
\* them for "4 5\n1 1 2 3 2\n2 3 4 4 3\n", "4 5\n3 1 1 1 2\n4 2 3 4 4\n" and
\* "4 5\n1 2 1 2 3\n3 4 4 3 4\n"
FiveA == [n |-> 4, cmp |-> << <<0, 1>>, <<0, 2>>, <<1, 3>>, <<2, 3>>, <<1, 2>> >>]
FiveB == [n |-> 4, cmp |-> << <<2, 3>>, <<0, 1>>, <<0, 2>>, <<0, 3>>, <<1, 3>> >>]
FiveC == [n |-> 4, cmp |-> << <<0, 2>>, <<1, 3>>, <<0, 3>>, <<1, 2>>, <<2, 3>> >>]

InitFive == \E sc \in {FiveA, FiveB, FiveC} : InitWith(sc.n, sc.cmp)

\* the verifications of FiveA, FiveB and FiveC, the future kept
SpecFive == InitFive /\ [][Next]_vars

\* -------------------------------------- execute_job_v2 with its flag raised
\* execute_job_v2 is handed cancel_state: Arc<Mutex<bool>> (line 255) and polls
\* it; a caller that keeps a clone of the Arc may set it at any time.
\* is_sorting_network_future_v2, the one caller in the repository, keeps none.
CancelStateSet ==
    /\ ~cancel_state
    /\ pc \notin {"returned", "panicked"}
    /\ cancel_state' = TRUE
    /\ UNCHANGED <<n, cmp, pc, msgs, strategy>>
    /\ UNCHANGED work
    /\ UNCHANGED holder
    /\ UNCHANGED host

InitCancel == \E sc \in {ScenarioS1, ScenarioS2, ScenarioS4} : InitWith(sc.n, sc.cmp)

NextCancel == Producer \/ CancelStateSet

SpecCancel == InitCancel /\ [][NextCancel]_vars

\* ------------------------------------ one comparator applied to one state
\* The two arms of the closure of the Cmp worker, each run on the state
\* (arms.z, arms.o) with a cmp_part of the single entry (0, a, b), for every
\* comparator and every pair of bitmaps over the wires.
OneEntry == <<CeEntry(0, cmp[1][1], cmp[1][2])>>

InitApply ==
    \E k \in 2..MaxN : \E c \in Comparators(k) :
        \E z \in SUBSET (0..(k - 1)) : \E o \in SUBSET (0..(k - 1)) :
            InitAll(k, <<c>>, "apply", "none", <<>>,
                    [z |-> z, o |-> o, inplace |-> Pending, stack |-> Pending])

\* lines 355-377: the state as an element of the chunk
ApplyInplace ==
    /\ pc = "apply"
    /\ ~arms.inplace.done
    /\ arms' = [arms EXCEPT !.inplace =
                   [done |-> TRUE,
                    r |-> inplace_arm(OneEntry, 0, arms.z, arms.o, <<>>, [cei \in {0} |-> FALSE])]]
    /\ UNCHANGED <<n, cmp, pc, msgs, cancel_state, strategy>>
    /\ UNCHANGED work
    /\ UNCHANGED holder
    /\ UNCHANGED <<verify_id, host_pc, rx_pos, progress_update, last_progress, emitted,
                   newer_seen, net, parsed>>

\* lines 378-400: the state as a continuation popped from the stack
ApplyStack ==
    /\ pc = "apply"
    /\ ~arms.stack.done
    /\ arms' = [arms EXCEPT !.stack =
                   [done |-> TRUE,
                    r |-> stack_arm(OneEntry, 0, arms.z, arms.o, <<>>, [cei \in {0} |-> FALSE])]]
    /\ UNCHANGED <<n, cmp, pc, msgs, cancel_state, strategy>>
    /\ UNCHANGED work
    /\ UNCHANGED holder
    /\ UNCHANGED <<verify_id, host_pc, rx_pos, progress_update, last_progress, emitted,
                   newer_seen, net, parsed>>

NextApply == ApplyInplace \/ ApplyStack

SpecApply == InitApply /\ [][NextApply]_vars

\* ------------------------------------------- verify_strategy, step by step
\* the comparator lists of at most MaxM + 1 comparators: the planner alone is
\* cheap enough for one comparator more than the executor gets
PlanNetworks(k) == UNION {[1..len -> Comparators(k)] : len \in 0..(MaxM + 1)}

\* verify_strategy is entered (line 272) with its locals of lines 180-183
InitPlan == \E k \in 2..MaxN : \E c \in PlanNetworks(k) : InitWith(k, c)

\* one iteration of  while cmp_skip < cmp.len()
StrategyIteration ==
    /\ pc = "spawn"
    /\ strategy_running(cmp, strategy)
    /\ strategy' = strategy_step(n, cmp, strategy)
    /\ UNCHANGED <<n, cmp, pc, msgs, cancel_state>>
    /\ UNCHANGED work
    /\ UNCHANGED <<holder, host>>

\* line 249: layers is returned
StrategyReturn ==
    /\ pc = "spawn"
    /\ ~strategy_running(cmp, strategy)
    /\ plan' = strategy.layers
    /\ pc' = "planned"
    /\ UNCHANGED <<n, cmp, job, result, checked_cmp, used_cmp, states, dsu, par,
                   united_status, loc, msgs, cancel_state, strategy>>
    /\ UNCHANGED <<holder, host>>

NextPlan == StrategyIteration \/ StrategyReturn

\* the planner run on every network within the bounds
SpecPlan == InitPlan /\ [][NextPlan]_vars

\* ------------------------------------- commands.rs: sorting_network_verify
\* One invocation of the command, made with id = 1, together with its
\* producer; of a later invocation, made with id = 2, only the store of its id
\* (lines 79-84) is modelled: nothing else it does is read by the first one.
\* A String is modelled by the sequence of its pieces: a producer log is one
\* piece, "\n" is one piece, the empty String is the empty sequence.
Text(log) == IF log = <<>> THEN <<>> ELSE <<log>>

\* SortingNetworkSvg::default() and gen_svg(&pos, &last_progress): the drawing
\* is a function of the used and unsorted maps of the JobResult
svg_default == <<>>
gen_svg(res) == <<res.used, res.unsorted>>

\* EmitType::Progress(ProgressUpdate {..}) built from a JobResult (lines 107-126)
ProgressEvent(res, log) ==
    [type |-> "Progress", max_branches |-> res.progress_all, branches |-> res.progress,
     used |-> res.used, unsorted |-> res.unsorted, svg |-> svg_default, log |-> log]
LogEvent(log) == [type |-> "Log", log |-> log]
ErrorEvent == [type |-> "Error"]
CancelRecvEvent == [type |-> "CancelRecv"]
CencelledEvent == [type |-> "Cencelled"]
DoneEvent == [type |-> "Done"]

\* if let EmitType::Progress(pp) = progress_update { svg: gen_svg(..), ..pp }
with_svg(ev, res) == IF ev.type = "Progress" THEN [ev EXCEPT !.svg = gen_svg(res)] ELSE ev

\* Mutant of HostReturn: the events are emitted and the loop goes on (the
\* return is missing).
HostReturn_no_return(evs) ==
    /\ emitted' = emitted \o evs
    /\ host_pc' = "check_top"
    /\ rx_alive' = rx_alive

\* the command returns after emitting evs: the JobResultFuture is dropped
HostReturn(evs) ==
    /\ emitted' = emitted \o evs
    /\ host_pc' = "returned"
    /\ rx_alive' = FALSE

\* if id != get_id() { future.cancel(); emit(CancelRecv); return }
Superseded ==
    /\ future_cancel' = TRUE
    /\ HostReturn(<<CancelRecvEvent>>)
    /\ UNCHANGED <<verify_id, rx_pos, progress_update, last_progress>>

\* lines 79-84: the id of the invocation is stored
HostSetId ==
    /\ host_pc = "set_id"
    /\ verify_id' = 1
    /\ host_pc' = "parse"
    /\ UNCHANGED <<n, cmp, pc, msgs, cancel_state, strategy>>
    /\ UNCHANGED work
    /\ UNCHANGED holder
    /\ UNCHANGED <<rx_pos, progress_update, last_progress, emitted, newer_seen>>
    /\ UNCHANGED input

\* EmitType::Error(e) of a parse error
ParseErrorEvent(e) == [type |-> "Error", text |-> e]

\* lines 91-97 and 333-338: match parse_network(&net).  On Ok the future is
\* created for (n, cmp) and with it the producer thread is spawned; on Err the
\* error is emitted and the command returns.
HostParse ==
    /\ host_pc = "parse"
    /\ pc = "unborn"
    /\ parsed' = parse_network(net)
    /\ IF parsed'.ok
       THEN /\ n' = parsed'.n
            /\ cmp' = parsed'.cmp
            /\ result' = JobResultNew(cmp')
            /\ checked_cmp' = [cei \in 0..(Len(cmp') - 1) |-> FALSE]
            /\ used_cmp' = [cei \in 0..(Len(cmp') - 1) |-> FALSE]
            /\ states' = [i \in 0..(n' - 1) |-> <<>>]
            /\ dsu' = DsuNew(n')
            /\ strategy' = StrategyNew(n', cmp')
            /\ last_progress' = JobResultNew(cmp')
            /\ pc' = "spawn"
            /\ host_pc' = "check_top"
            /\ UNCHANGED emitted
       ELSE /\ emitted' = Append(emitted, ParseErrorEvent(parsed'.err))
            /\ host_pc' = "returned"
            /\ UNCHANGED <<n, cmp, result, checked_cmp, used_cmp, states, dsu, strategy,
                           last_progress, pc>>
    /\ UNCHANGED <<plan, job, par, united_status, loc, msgs, cancel_state>>
    /\ UNCHANGED holder
    /\ UNCHANGED <<verify_id, rx_pos, progress_update, newer_seen, net, arms>>

\* lines 79-84 of a later invocation, made with id = 2
NewerSetId ==
    /\ host_pc \notin {"none", "set_id"}
    /\ newer_seen = <<>>
    /\ verify_id' = 2
    /\ newer_seen' = <<Len(emitted)>>
    /\ UNCHANGED <<n, cmp, pc, msgs, cancel_state, strategy>>
    /\ UNCHANGED work
    /\ UNCHANGED holder
    /\ UNCHANGED <<host_pc, rx_pos, progress_update, last_progress, emitted>>
    /\ UNCHANGED input

\* the id checks of lines 99-103, 214-220 and 265-271
HostCheck(at, next) ==
    /\ host_pc = at
    /\ IF verify_id # 1 THEN Superseded
       ELSE /\ host_pc' = next
            /\ UNCHANGED <<future_cancel, rx_alive, verify_id, rx_pos, progress_update,
                           last_progress, emitted>>
    /\ UNCHANGED <<n, cmp, pc, msgs, cancel_state, strategy, cancel_seen, newer_seen>>
    /\ UNCHANGED work
    /\ UNCHANGED input

HostCheckTop == HostCheck("check_top", "recv")
HostCheckMid == HostCheck("check_mid", "emit")
HostCheckBottom == HostCheck("check_bottom", "check_top")

\* the Sender is dropped: the producer thread has ended
Disconnected == pc \in {"returned", "panicked"}

\* lines 104-144: future.recv_progress() blocks until a message is queued or
\* the channel is closed and empty
HostRecv ==
    /\ host_pc = "recv"
    /\ IF rx_pos < Len(msgs)
       THEN LET m == msgs[rx_pos + 1]
            IN /\ rx_pos' = rx_pos + 1
               /\ IF m.type = "Progress"
                  THEN /\ last_progress' = m.result
                       /\ progress_update' = ProgressEvent(m.result, Text(m.result.log))
                       /\ host_pc' = "drain"
                       /\ UNCHANGED <<emitted, rx_alive>>
                  ELSE IF m.type = "Log"
                  THEN /\ progress_update' = LogEvent(Text(m.log))
                       /\ host_pc' = "drain"
                       /\ UNCHANGED <<last_progress, emitted, rx_alive>>
                  ELSE IF m.type = "Cancel"
                  THEN /\ HostReturn(<<CencelledEvent>>)
                       /\ UNCHANGED <<last_progress, progress_update>>
                  ELSE /\ HostReturn(<<DoneEvent>>)
                       /\ UNCHANGED <<last_progress, progress_update>>
       ELSE /\ Disconnected
            /\ HostReturn(<<ErrorEvent>>)
            /\ UNCHANGED <<rx_pos, last_progress, progress_update>>
    /\ UNCHANGED <<n, cmp, pc, msgs, cancel_state, strategy, future_cancel, cancel_seen,
                   verify_id, newer_seen>>
    /\ UNCHANGED work
    /\ UNCHANGED input

\* Mutant of prev_log: only a held Progress hands its log on, the text of a
\* held Log falls under  _ => String::new().
prev_log_of_progress(ev) == IF ev.type = "Progress" THEN ev.log \o <<"\n">> ELSE <<>>

\* lines 149-153: the log carried over from the event held so far
prev_log(ev) == IF ev.type \in {"Progress", "Log"} THEN ev.log \o <<"\n">> ELSE <<>>

\* lines 176-186: a Log message joins the event held so far
merge_log(ev, log) ==
    IF ev.type = "Progress" THEN [ev EXCEPT !.log = @ \o <<"\n">> \o log]
    ELSE IF ev.type = "Log" THEN LogEvent(ev.log \o <<"\n">> \o log)
    ELSE LogEvent(log)

\* lines 146-213: one turn of the loop around future.try_recv_progress(); on
\* Err the loop is left and the drawing is made
HostDrain ==
    /\ host_pc = "drain"
    /\ IF rx_pos < Len(msgs)
       THEN LET m == msgs[rx_pos + 1]
            IN /\ rx_pos' = rx_pos + 1
               /\ IF m.type = "Progress"
                  THEN /\ last_progress' = m.result
                       /\ progress_update' =
                             ProgressEvent(m.result, prev_log(progress_update) \o Text(m.result.log))
                       /\ UNCHANGED <<host_pc, emitted, rx_alive>>
                  ELSE IF m.type = "Log"
                  THEN /\ progress_update' = merge_log(progress_update, Text(m.log))
                       /\ UNCHANGED <<host_pc, last_progress, emitted, rx_alive>>
                  ELSE IF m.type = "Cancel"
                  THEN /\ HostReturn(<<CencelledEvent>>)
                       /\ UNCHANGED <<last_progress, progress_update>>
                  ELSE /\ progress_update' = with_svg(progress_update, last_progress)
                       /\ HostReturn(<<with_svg(progress_update, last_progress), DoneEvent>>)
                       /\ UNCHANGED last_progress
       ELSE /\ progress_update' = with_svg(progress_update, last_progress)
            /\ host_pc' = "check_mid"
            /\ UNCHANGED <<rx_pos, last_progress, emitted, rx_alive>>
    /\ UNCHANGED <<n, cmp, pc, msgs, cancel_state, strategy, future_cancel, cancel_seen,
                   verify_id, newer_seen>>
    /\ UNCHANGED work
    /\ UNCHANGED input

\* line 221: emit(progress_update)
HostEmit ==
    /\ host_pc = "emit"
    /\ emitted' = Append(emitted, progress_update)
    /\ host_pc' = "check_bottom"
    /\ UNCHANGED <<n, cmp, pc, msgs, cancel_state, strategy>>
    /\ UNCHANGED work
    /\ UNCHANGED holder
    /\ UNCHANGED <<verify_id, rx_pos, progress_update, last_progress, newer_seen>>
    /\ UNCHANGED input

Host ==
    \/ HostSetId
    \/ HostParse
    \/ HostCheckTop
    \/ HostRecv
    \/ HostDrain
    \/ HostCheckMid
    \/ HostEmit
    \/ HostCheckBottom

\* the texts of the scenarios S1 and S2
TextS1 == <<"2", "1", NL, "1", NL, "2", NL>>
TextS2 == <<"3", "3", NL, "1", "2", "1", NL, "2", "3", "2", NL>>

\* The command is invoked on a text: no network, no future and no producer
\* thread exist yet (n = 0, no comparators).
InitText(text) == InitAll(0, <<>>, "unborn", "set_id", text, NoArms)

\* the command is invoked on the text of S1 or of S2
InitHost == \E text \in {TextS1, TextS2} : InitText(text)

NextHost == Host \/ Producer \/ NewerSetId

\* ----------------------------------------------- the command on any text
\* the sequences of at most len tokens of the set toks
TokenLines(toks, len) == UNION {[1..l -> toks] : l \in 0..len}

\* first lines: nothing, N alone, N and M, and N, M and one token more
FirstLines ==
    {<<>>}
    \cup {<<tn>> : tn \in {"1", "2", "3", "64", "65", "x"}}
    \cup {<<tn, tm>> : tn \in {"1", "2", "3", "x"}, tm \in {"0", "1", "2", "x"}}
    \cup {<<"64", "0">>, <<"65", "0">>, <<"2", "1", "7">>, <<"3", "2", "7">>, <<"+2", "1">>,
          <<"02", "1">>, <<"2", "-1">>}

\* a-lines and b-lines of at most MaxM - 1 numbers
ALines == TokenLines({"0", "1", "2", "x"}, MaxM - 1)
BLines == TokenLines({"2", "3", "4"}, MaxM - 1) \cup {<<"2.0">>}

\* the text of the given lines, each with its terminator
RECURSIVE Join(_)
Join(ls) == IF ls = <<>> THEN <<>> ELSE ls[1] \o <<NL>> \o Join(Tail(ls))

\* texts of no, one and two lines; of three lines with and without the final
\* terminator; of three lines and a fourth; first is the set of first lines
Texts(first) ==
    {<<>>}
    \cup {Join(<<f>>) : f \in first}
    \cup {Join(<<f, a>>) : f \in {<<"2", "1">>, <<"3", "2">>}, a \in ALines}
    \cup {Join(<<f, a, b>>) : f \in first, a \in ALines, b \in BLines}
    \cup {SubSeq(Join(<<f, a, b>>), 1, Len(Join(<<f, a, b>>)) - 1) :
              f \in {<<"2", "1">>, <<"3", "2">>}, a \in ALines, b \in BLines}
    \cup {Join(<<f, a, b, e>>) : f \in {<<"2", "1">>, <<"3", "2">>, <<"64", "0">>},
                                   a \in ALines, b \in BLines, e \in {<<"x">>}}

InitParse == \E text \in Texts(FirstLines) : InitText(text)

NextParse == Host \/ Producer

\* one invocation of sorting_network_verify on every text of Texts
SpecParse == InitParse /\ [][NextParse]_vars

\* one invocation of sorting_network_verify, its producer, and the id store of
\* a later invocation, in every interleaving
SpecHost == InitHost /\ [][NextHost]_vars

\* ------------------------------------------- the run with one chunk per job
\* The plan executed by one worker that takes every states[root] as a single
\* chunk, which is what par_chunks_mut(65536) gives for every vector of at most
\* 65536 states; the Combine product in the order of the commented-out
\* sequential loop (lines 308-315).
seq_combine(master, slave) ==
    [x \in 1..(Len(master) * Len(slave)) |->
        LET k == (x - 1) \div Len(master)
            i == (x - 1) % Len(master)
        IN <<slave[k + 1][1] \cup master[i + 1][1], slave[k + 1][2] \cup master[i + 1][2]>>]

seq_job(s, j, m) ==
    IF j.kind = "Combine"
    THEN [s EXCEPT !.states[j.root_master] =
                       seq_combine(s.states[j.root_master], s.states[j.root_slave]),
                   !.states[j.root_slave] = <<>>]
    ELSE LET w == cmp_worker(j.cmp_part, m, s.states[j.root], FALSE)
             all == w.chunk \o w.ext
         IN [s EXCEPT !.states[j.root] = IF Len(w.ext) > 0 THEN dedup(sort_unstable(all))
                                         ELSE all,
                      !.used = [cei \in DOMAIN s.used |-> s.used[cei] \/ w.used[cei]]]

RECURSIVE seq_jobs(_, _, _, _)
seq_jobs(s, jobs, k, m) ==
    IF k > Len(jobs) THEN s ELSE seq_jobs(seq_job(s, jobs[k], m), jobs, k + 1, m)

seq_run(k, c) ==
    LET s == seq_jobs([states |-> [i \in 0..(k - 1) |-> << <<{i}, {i}>> >>],
                       used |-> [cei \in 0..(Len(c) - 1) |-> FALSE]],
                      verify_strategy(k, c), 1, Len(c))
    IN [states |-> s.states, used |-> s.used,
        unsorted |-> check_roots({}, s.states, 0, k)]

\* ------------------------------------------------- the meaning of a network
\* A 0/1 vector over the wires 0..n-1 is the set of the wires that hold 1.
Inputs == SUBSET (0..(n - 1))

\* comparator (a, b): the minimum goes to wire a, the maximum to wire b
Exchanges(v, c) == c[1] \in v /\ c[2] \notin v
ApplyComparator(v, c) == IF Exchanges(v, c) THEN (v \ {c[1]}) \cup {c[2]} ELSE v

\* the vector after the first k comparators of the list c
RECURSIVE After(_, _, _)
After(v, c, k) == IF k = 0 THEN v ELSE ApplyComparator(After(v, c, k - 1), c[k])

Output(v) == After(v, cmp, Len(cmp))
NonDecreasing(v) == \A i \in 0..(n - 1) : \A j \in 0..(n - 1) : ~(i < j /\ i \in v /\ j \notin v)
SortsAll == \A v \in Inputs : NonDecreasing(Output(v))

\* the verification ran to completion: Done was sent
Completed == pc = "returned" /\ msgs # <<>> /\ msgs[Len(msgs)] = Done
\* the JobResult of the last Progress message
FinalProgress == msgs[Len(msgs) - 1].result

\* -------------------------------------------------------------------- claims
\* C1: when the verification runs to completion, the unsorted map of the final
\* Progress is all-zero (is_sorting_network) iff every 0/1 input leaves the
\* network non-decreasing.
C1_VerdictIffSortsAll ==
    Completed => (is_sorting_network(FinalProgress) <=> SortsAll)

\* C1 witness: a completed verification of a 3-wire network declared sorting
C1_Witness ==
    Completed /\ n = 3 /\ is_sorting_network(FinalProgress) /\ SortsAll

\* C2: at completion bit j of unsorted[i] is set iff i < j < n and some input
\* gives an output with wire i = 1 and wire j = 0; no other bit is set.
C2_UnsortedBitsExact ==
    Completed =>
        FinalProgress.unsorted =
            {p \in (0..(n - 1)) \X (0..(n - 1)) :
                p[1] < p[2] /\ \E v \in Inputs : p[1] \in Output(v) /\ p[2] \notin Output(v)}

\* C2 witness: completion with two components of several wires left
\* unconnected, emptied slave roots, and a cross-component bit set
C2_Witness ==
    /\ Completed
    /\ \E r1 \in 0..(n - 1) : \E r2 \in 0..(n - 1) :
          /\ r1 # r2
          /\ Len(states[r1]) > 1
          /\ Len(states[r2]) > 1
          /\ \E i \in states[r1][1][1] : \E j \in states[r2][1][1] :
                i < j /\ <<i, j>> \in FinalProgress.unsorted
    /\ \E r \in 0..(n - 1) : states[r] = <<>>

\* C3: at completion a network that fails on some input has an adjacent bit
\* (i, i+1) set, and the whole map is zero iff no adjacent bit is set.
C3_AdjacentBitShowsFailure ==
    Completed =>
        /\ (~SortsAll => get_unsorted_adjacent(FinalProgress) # {})
        /\ (is_sorting_network(FinalProgress) <=> get_unsorted_adjacent(FinalProgress) = {})

\* C3 witness: a completed verification of a failing network whose map also
\* holds a non-adjacent bit
C3_Witness ==
    /\ Completed
    /\ ~SortsAll
    /\ get_unsorted_adjacent(FinalProgress) # {}
    /\ \E p \in FinalProgress.unsorted : p[2] > p[1] + 1

\* C4: at completion used[k] is true iff comparator k exchanges its wires for
\* at least one 0/1 input (wire a holds 1 and wire b holds 0 when it is reached).
C4_UsedIffExchanges ==
    Completed =>
        \A k \in 0..(Len(cmp) - 1) :
            FinalProgress.used[k] <=> \E v \in Inputs : Exchanges(After(v, cmp, k), CmpAt(cmp, k))

\* C4 witness: a completed verification with a used and an unused comparator
C4_Witness ==
    /\ Completed
    /\ \E k \in 0..(Len(cmp) - 1) : FinalProgress.used[k]
    /\ \E k \in 0..(Len(cmp) - 1) : ~FinalProgress.used[k]

\* the comparator list without its comparator k (0-based)
Without(c, k) == [x \in 1..(Len(c) - 1) |-> IF x <= k THEN c[x] ELSE c[x + 1]]

\* C5: if used[k] is false at completion, verifying the network without
\* comparator k gives the same verdict.
C5_UnusedIsRemovable ==
    Completed =>
        \A k \in 0..(Len(cmp) - 1) :
            ~FinalProgress.used[k] =>
                ((seq_run(n, Without(cmp, k)).unsorted = {})
                    <=> is_sorting_network(FinalProgress))

\* C5 witness: a completed verification of a sorting network with an unused comparator
C5_Witness ==
    /\ Completed
    /\ is_sorting_network(FinalProgress)
    /\ \E k \in 0..(Len(cmp) - 1) : ~FinalProgress.used[k]

\* the messages of type t among the messages sent
Sent(t) == {k \in 1..Len(msgs) : msgs[k].type = t}

\* C6: once cancel() has been called on the future while the producer still
\* had jobs to execute, the producer sends at most one further Progress, ends
\* with exactly one Cancel as its terminal message and never sends Done.
C6_CancelEndsWithCancel ==
    (cancel_seen # <<>> /\ cancel_seen[1].jobs_left) =>
        /\ Sent("Done") = {}
        /\ Cardinality({k \in Sent("Progress") : k > cancel_seen[1].msgs}) <= 1
        /\ (pc = "returned" => /\ Cardinality(Sent("Cancel")) = 1
                               /\ msgs[Len(msgs)] = Cancel)

\* the type of the k-th message of a verification that is not cancelled
ExpectedType(k) ==
    IF k = 1 THEN "Progress"
    ELSE IF k <= Len(plan) + 1
         THEN (IF plan[k - 1].kind = "Cmp" THEN "Progress" ELSE "Log")
    ELSE IF k = Len(plan) + 2 THEN "Progress"
    ELSE "Done"

\* the k-th message, 1 < k <= Len(plan) + 1, reports job k - 1 of the plan
ReportsJob(m, j) ==
    IF j.kind = "Cmp" THEN m.result.log[1] = "AppliedCE" /\ m.result.log[7] = j.cmp_part
    ELSE m.log[1] = "Combining" /\ m.log[5] = j.root_master /\ m.log[6] = j.root_slave

\* C7: in a verification that is not cancelled the messages are one Progress,
\* then one message per job in plan order (Progress for Cmp, Log for Combine),
\* then the final Progress, then Done; so there are 2 + (Cmp jobs) Progress
\* messages and as many Log messages as Combine jobs.
C7_MessageSequence ==
    /\ Len(msgs) <= Len(plan) + 3
    /\ \A k \in 1..Len(msgs) :
          /\ msgs[k].type = ExpectedType(k)
          /\ (1 < k /\ k <= Len(plan) + 1) => ReportsJob(msgs[k], plan[k - 1])
    /\ pc = "returned" =>
          /\ Len(msgs) = Len(plan) + 3
          /\ Cardinality(Sent("Progress")) =
                2 + Cardinality({j \in 1..Len(plan) : plan[j].kind = "Cmp"})
          /\ Cardinality(Sent("Log")) =
                Cardinality({j \in 1..Len(plan) : plan[j].kind = "Combine"})

\* C7 witness: a completed verification whose plan has Combine jobs and
\* several Cmp jobs, one of them without extension
C7_Witness ==
    /\ Completed
    /\ Cardinality({j \in 1..Len(plan) : plan[j].kind = "Cmp"}) >= 2
    /\ Cardinality({j \in 1..Len(plan) : plan[j].kind = "Combine"}) >= 2
    /\ \E k \in Sent("Progress") :
          msgs[k].result.log # <<>> /\ msgs[k].result.log[1] = "AppliedCE"
          /\ msgs[k].result.log[4] = msgs[k].result.log[5]

Terminals == Sent("Done") \cup Sent("Cancel")

C9_ScheduleIndependent ==
    Completed =>
        LET ref == seq_run(n, cmp)
        IN /\ FinalProgress.used = ref.used
           /\ FinalProgress.unsorted = ref.unsorted
           /\ \A r \in 0..(n - 1) : sort_unstable(states[r]) = sort_unstable(ref.states[r])

\* C9 witness: a completed verification with a Cmp job split over several
\* chunks and a Combine job with several slave elements
C9_Witness ==
    /\ Completed
    /\ \E k \in Sent("Progress") :
          /\ msgs[k].result.log # <<>>
          /\ msgs[k].result.log[1] = "AppliedCE"
          /\ msgs[k].result.log[4] > ChunkLen
          /\ msgs[k].result.log[5] > msgs[k].result.log[4]
    /\ \E k \in Sent("Log") : msgs[k].log[8] >= 2

\* C10: across the Progress messages of a verification the used bitmap only
\* gains bits.
C10_UsedOnlyGrows ==
    \A k \in Sent("Progress") : \A l \in Sent("Progress") :
        k < l => \A cei \in 0..(Len(cmp) - 1) :
                    msgs[k].result.used[cei] => msgs[l].result.used[cei]

\* C10 witness: a later Progress keeps a bit of an earlier one and adds another
C10_Witness ==
    \E k \in Sent("Progress") : \E l \in Sent("Progress") :
        /\ k < l
        /\ \E cei \in 0..(Len(cmp) - 1) : msgs[k].result.used[cei] /\ msgs[l].result.used[cei]
        /\ \E cei \in 0..(Len(cmp) - 1) : ~msgs[k].result.used[cei] /\ msgs[l].result.used[cei]

\* the places <<j, e>> of the Cmp jobs of a plan whose entry has original index i
Occurrences(layers, i) ==
    {q \in (1..Len(layers)) \X (1..Len(cmp)) :
        /\ layers[q[1]].kind = "Cmp"
        /\ q[2] <= Len(layers[q[1]].cmp_part)
        /\ layers[q[1]].cmp_part[q[2]].cei = i}

\* every entry of every Cmp job is an original comparator with its own index
EntriesValid(layers) ==
    \A j \in 1..Len(layers) :
        layers[j].kind = "Cmp" =>
            \A e \in 1..Len(layers[j].cmp_part) :
                LET ce == layers[j].cmp_part[e]
                IN /\ ce.cei \in 0..(Len(cmp) - 1)
                   /\ <<ce.a, ce.b>> = CmpAt(cmp, ce.cei)

\* C11: in the plan verify_strategy returns, every original comparator index
\* occurs exactly once among the entries of the Cmp jobs (none is missing, none
\* is in two jobs or twice in one); while the plan is built none occurs twice.
C11_EveryComparatorOnce ==
    /\ EntriesValid(strategy.layers)
    /\ \A i \in 0..(Len(cmp) - 1) : Cardinality(Occurrences(strategy.layers, i)) <= 1
    /\ pc = "planned" =>
          /\ plan = strategy.layers
          /\ \A i \in 0..(Len(cmp) - 1) : Cardinality(Occurrences(plan, i)) = 1

\* C11 witness: a returned plan in which a later comparator is in an earlier
\* job than a comparator before it, and one job holds two entries
C11_Witness ==
    /\ pc = "planned"
    /\ \E i \in 0..(Len(cmp) - 1) : \E k \in 0..(Len(cmp) - 1) :
          /\ i < k
          /\ \E q \in Occurrences(plan, i) : \E r \in Occurrences(plan, k) : r[1] < q[1]
    /\ \E j \in 1..Len(plan) : plan[j].kind = "Cmp" /\ Len(plan[j].cmp_part) >= 2

\* the DSU after the unions of the Combine jobs among the first j jobs of a
\* plan, each union made as the executor makes it (line 289)
RECURSIVE UnionsBefore(_, _)
UnionsBefore(layers, j) ==
    IF j = 0 THEN DsuNew(n)
    ELSE LET d == UnionsBefore(layers, j - 1)
         IN IF layers[j].kind = "Combine"
            THEN unite(d, layers[j].root_master, layers[j].root_slave).dsu
            ELSE d

\* in the DSU d, r is a root and both wires of every entry of the job are under r
RootedAt(d, cmpjob) ==
    /\ root(d, cmpjob.root) = cmpjob.root
    /\ \A e \in 1..Len(cmpjob.cmp_part) :
          /\ root(d, cmpjob.cmp_part[e].a) = cmpjob.root
          /\ root(d, cmpjob.cmp_part[e].b) = cmpjob.root

\* C12: for every Cmp job of a plan, after the unions of the Combine jobs that
\* precede it, its root is a current DSU root and both wires of every entry
\* have that root; for the jobs emitted since the last Combine this also holds
\* in the planner's own DSU.
C12_CmpJobRootsCurrent ==
    \A j \in 1..Len(strategy.layers) :
        strategy.layers[j].kind = "Cmp" =>
            /\ RootedAt(UnionsBefore(strategy.layers, j - 1), strategy.layers[j])
            /\ (\A k \in j..Len(strategy.layers) : strategy.layers[k].kind = "Cmp")
                  => RootedAt(strategy.dsu, strategy.layers[j])

\* C12 witness: a returned plan with a Cmp job after two Combine jobs, one of
\* whose entries has neither wire equal to the root of the job
C12_Witness ==
    /\ pc = "planned"
    /\ \E j \in 1..Len(plan) :
          /\ plan[j].kind = "Cmp"
          /\ \E e \in 1..Len(plan[j].cmp_part) :
                plan[j].cmp_part[e].a # plan[j].root /\ plan[j].cmp_part[e].b # plan[j].root
          /\ Cardinality({k \in 1..(j - 1) : plan[k].kind = "Combine"}) >= 2

\* z | o of a pair of a state set: the wires the pair speaks about
Support(st) == st[1] \cup st[2]

\* C13: while a Combine{master, slave} job is executed, every pair of
\* states[master] and every pair of states[slave] have disjoint bit-supports:
\* (zm | om) & (zs | os) = 0.
C13_CombineSupportsDisjoint ==
    pc = "combine" =>
        \A i \in 1..Len(states[plan[job].root_master]) :
            \A k \in 1..Len(states[plan[job].root_slave]) :
                Support(states[plan[job].root_master][i])
                    \cap Support(states[plan[job].root_slave][k]) = {}

\* C13 witness: a Combine job under execution whose master and slave both hold
\* several pairs over several wires
C13_Witness ==
    /\ pc = "combine"
    /\ Len(states[plan[job].root_master]) >= 2
    /\ Len(states[plan[job].root_slave]) >= 2
    /\ Cardinality(Support(states[plan[job].root_master][1])) >= 2
    /\ Cardinality(Support(states[plan[job].root_slave][1])) >= 2

\* the number of comparator entries of the Cmp jobs among the first j jobs
RECURSIVE EntriesUpTo(_, _)
EntriesUpTo(layers, j) ==
    IF j = 0 THEN 0
    ELSE EntriesUpTo(layers, j - 1)
         + (IF layers[j].kind = "Cmp" THEN Len(layers[j].cmp_part) ELSE 0)

UnsortedInStates ==
    UNION {UNION {{p \in states[r][x][2] \X states[r][x][1] : p[1] < p[2]}
                  : x \in 1..Len(states[r])}
           : r \in 0..(n - 1)}

\* the Progress of a Cmp job is the last message sent and the producer stands
\* at the head of the job loop, so that states is as it was at the send
JustSentCmpProgress ==
    /\ pc = "loop"
    /\ Len(msgs) > 1
    /\ job = Len(msgs)
    /\ msgs[Len(msgs)].type = "Progress"

\* C15 as stated: the Progress sent after a Cmp job has bit j of unsorted[i]
\* set whenever, at that moment, some pair (z, o) of a state set has bit i of o
\* and bit j of z set with i < j.
C15_SnapshotUnsortedFromStates ==
    JustSentCmpProgress => UnsortedInStates \subseteq msgs[Len(msgs)].result.unsorted

\* C15 amended: every Progress sent before finalization (the first one and the
\* one of each Cmp job) carries the all-zero unsorted map of JobResult::new;
\* the final snapshot has bit j of unsorted[i] set whenever some pair (z, o) of
\* a final state set has bit i of o and bit j of z set with i < j.
C15_UnsortedOnlyInFinalSnapshot ==
    /\ \A k \in Sent("Progress") : k <= Len(plan) + 1 => msgs[k].result.unsorted = {}
    /\ Completed => UnsortedInStates \subseteq FinalProgress.unsorted

\* C15 witness: the Progress of a Cmp job was just sent with an all-zero map
\* while a state set holds a pair with a 1 above a 0
C15_Witness ==
    /\ JustSentCmpProgress
    /\ UnsortedInStates # {}
    /\ msgs[Len(msgs)].result.unsorted = {}

\* the verification of the given scenario ran to completion
CompletedOn(sc) == n = sc.n /\ cmp = sc.cmp /\ Completed

\* the original indices of the comparators whose final used entry is false
FinalUnused == {k \in 0..(Len(cmp) - 1) : ~FinalProgress.used[k]}

\* C16 as stated: in scenario S3 the final used bitmap has exactly one false
\* entry.
C16_S3OneUnused == CompletedOn(ScenarioS3) => Cardinality(FinalUnused) = 1

\* C16 amended: in scenario S3 the final used bitmap has exactly two false
\* entries, those of the fifth and the sixth comparator, (3,4) and (1,2).
C16_S3TwoUnused == CompletedOn(ScenarioS3) => FinalUnused = {4, 5}

\* C16 witness: the verification of S3 completed
C16_Witness == CompletedOn(ScenarioS3) /\ Cardinality(FinalUnused) = 2

\* C17 as stated: in scenario S4 the verdict is negative and bit 2 of the
\* final unsorted[0] is set.
C17_S4Bit2OfUnsorted0 ==
    CompletedOn(ScenarioS4) =>
        ~is_sorting_network(FinalProgress) /\ <<0, 2>> \in FinalProgress.unsorted

\* C17 amended: in scenario S4 the verdict is negative, bits 1 and 3 of the
\* final unsorted[0] are set and its bit 2 is clear (comparator (1,3) orders
\* the wires 0 and 2); the whole map is unsorted[0] = {1, 3},
\* unsorted[1] = {2}, unsorted[2] = {3}.
C17_S4Bits1And3OfUnsorted0 ==
    CompletedOn(ScenarioS4) =>
        /\ ~is_sorting_network(FinalProgress)
        /\ <<0, 2>> \notin FinalProgress.unsorted
        /\ FinalProgress.unsorted = {<<0, 1>>, <<0, 3>>, <<1, 2>>, <<2, 3>>}

\* C17 witness: the verification of S4 completed with a negative verdict
C17_Witness == CompletedOn(ScenarioS4) /\ ~is_sorting_network(FinalProgress)

\* C18: the network of gen_oddeven(5) is the ten comparators of five rounds
\* alternating (0,1),(2,3) and (1,2),(3,4); its verification reports a sorting
\* network and every comparator used.
C18_S5SortsAllUsed ==
    /\ gen_oddeven(5) = << <<0, 1>>, <<2, 3>>, <<1, 2>>, <<3, 4>>, <<0, 1>>, <<2, 3>>,
                           <<1, 2>>, <<3, 4>>, <<0, 1>>, <<2, 3>> >>
    /\ CompletedOn(ScenarioS5) =>
          /\ is_sorting_network(FinalProgress)
          /\ FinalUnused = {}
          /\ CountTrue(get_unused(FinalProgress)) = 0

\* C18 witness: the verification of S5 completed
C18_Witness == CompletedOn(ScenarioS5) /\ Len(cmp) = 10 /\ FinalProgress.progress = 11

\* the producer stands before a progress_tx.send(..).unwrap()
AtSend ==
    \/ pc \in {"spawn", "updated", "finished"}
    \/ pc = "combine" /\ \A k \in DOMAIN par : par[k].done
    \/ pc = "loop" /\ job > Len(plan)

\* the future was dropped and no terminal message had been sent
DroppedEarly == ~rx_alive /\ Terminals = {}

\* C19: once the future is dropped before a terminal message was sent, nothing
\* further is delivered, no further job is completed, the plan is not run to
\* its end, and the producer's next attempt to send ends the thread (a panic,
\* which releases its state sets).
C19_DropStopsProducer ==
    [][DroppedEarly =>
          /\ msgs' = msgs
          /\ job' = job
          /\ pc' \notin {"finished", "returned"}
          /\ (AtSend /\ pc' # pc) => pc' = "panicked"]_vars

\* C19 witness: the thread ended by a panic after the future was dropped in
\* the middle of the plan, with jobs left and no terminal message
C19_Witness ==
    /\ pc = "panicked"
    /\ DroppedEarly
    /\ Len(msgs) >= 2
    /\ job <= Len(plan)

\* the events of the given type among the events emitted
Emitted(t) == {k \in 1..Len(emitted) : emitted[k].type = t}

\* C20: once a later invocation has stored a different id, the earlier
\* invocation emits no further Progress event; when it returns after that
\* store, its last event is CancelRecv.
C20_NoProgressAfterNewerId ==
    newer_seen # <<>> =>
        /\ \A k \in Emitted("Progress") : k <= newer_seen[1]
        /\ host_pc = "returned" /\ Len(emitted) > newer_seen[1]
              => emitted[Len(emitted)] = CancelRecvEvent

\* the number written as the i-th token of line l (1-based) of the text
NumberAt(text, l, i) == NumericValue[lines(text)[l][i]]

\* the preconditions verify_strategy asserts (lines 178-179)
StrategyPreconditions(k, c) ==
    /\ 2 <= k /\ k <= StateBITS
    /\ \A i \in 1..Len(c) : c[i][1] < c[i][2] /\ c[i][2] < k

\* C21: whenever parse_network returns Ok((n, m, cmp)): 2 <= n <= 64, cmp has
\* exactly m entries, entry i is (a_i - 1, b_i - 1) for the i-th numbers of the
\* second and the third line, every entry has 0 <= a < b < n; so the network the
\* verification is started on meets the preconditions of verify_strategy.
C21_ParsedNetworkValid ==
    (parsed.called /\ parsed.ok) =>
        /\ 2 <= parsed.n /\ parsed.n <= 64
        /\ Len(parsed.cmp) = parsed.m
        /\ \A i \in 1..parsed.m :
              /\ parsed.cmp[i] = <<NumberAt(net, 2, i) - 1, NumberAt(net, 3, i) - 1>>
              /\ 0 <= parsed.cmp[i][1]
              /\ parsed.cmp[i][1] < parsed.cmp[i][2]
              /\ parsed.cmp[i][2] < parsed.n
        /\ n = parsed.n /\ cmp = parsed.cmp
        /\ StrategyPreconditions(n, cmp)

\* C21 witness: a text of two comparators was accepted, the second comparator
\* not on wire 0, and the producer has made the plan for it
C21_Witness ==
    /\ parsed.called /\ parsed.ok
    /\ parsed.m = 2
    /\ parsed.cmp[2][1] > 0
    /\ pc = "loop"
    /\ Len(plan) >= 2

\* every token of the line is a number
Numeric(line) == \A i \in 1..Len(line) : line[i] \in DOMAIN NumericValue

\* the lines 1..3 of the text have the form "N M / a1..aM / b1..bM" with
\* 2 <= N <= 64 and 1 <= a_i < b_i <= N; what follows M on the first line and
\* what follows the third line is not looked at
ThreeLinesValid(text) ==
    LET ls == lines(text)
    IN /\ Len(ls) >= 3
       /\ Len(ls[1]) >= 2
       /\ Numeric(SubSeq(ls[1], 1, 2)) /\ Numeric(ls[2]) /\ Numeric(ls[3])
       /\ NumericValue[ls[1][1]] \in 2..64
       /\ Len(ls[2]) = NumericValue[ls[1][2]]
       /\ Len(ls[3]) = NumericValue[ls[1][2]]
       /\ \A i \in 1..Len(ls[2]) :
             /\ 1 <= NumericValue[ls[2][i]]
             /\ NumericValue[ls[2][i]] < NumericValue[ls[3][i]]
             /\ NumericValue[ls[3][i]] <= NumericValue[ls[1][1]]

\* the text is exactly of the format: three lines, two tokens on the first
FormatExact(text) ==
    /\ ThreeLinesValid(text)
    /\ Len(lines(text)) = 3
    /\ Len(lines(text)[1]) = 2

\* the command returned on a parse error: no producer, no message, one event
OnlyErrorEmitted ==
    /\ pc = "unborn"
    /\ msgs = <<>>
    /\ host_pc = "returned"
    /\ Len(emitted) = 1
    /\ emitted[1].type = "Error"

\* C22: parse_network returns an error for every text that deviates from the
\* format "N M / a1..aM / b1..bM", extra tokens after M and extra lines after
\* the b-line included; on an error no verification is started and Error is
\* the only event emitted.
C22_EveryDeviationRejected ==
    parsed.called =>
        /\ ~FormatExact(net) => ~parsed.ok
        /\ ~parsed.ok => OnlyErrorEmitted

\* the entries of the Cmp jobs among the first j jobs of a plan, in the order
\* in which the executor applies them
RECURSIVE ExecutedEntries(_, _)
ExecutedEntries(layers, j) ==
    IF j = 0 THEN <<>>
    ELSE ExecutedEntries(layers, j - 1)
         \o (IF layers[j].kind = "Cmp"
             THEN [e \in 1..Len(layers[j].cmp_part) |->
                      <<layers[j].cmp_part[e].a, layers[j].cmp_part[e].b>>]
             ELSE <<>>)

\* the wires of the component of root r in the executor's DSU
Component(r) == {i \in 0..(n - 1) : root(dsu, i) = r}

\* the assignments of the wires of comp that a pair (z, o) denotes: wire i is
\* 0 only if bit i of z is set and 1 only if bit i of o is set
Denotes(st, comp) == {v \in SUBSET comp : v \subseteq st[2] /\ (comp \ v) \subseteq st[1]}

\* what the wires of comp can hold after the comparators of the list c were
\* applied to all 0/1 inputs
Reachable(c, comp) == {After(v, c, Len(c)) \cap comp : v \in Inputs}

\* C23: at every job boundary and for every current root r, the assignments
\* denoted by the pairs of states[r] are exactly the value combinations the
\* wires of the component can hold after the comparators of the Cmp jobs
\* executed so far were applied to all 0/1 inputs.
C23_StatesDenoteReachable ==
    pc = "loop" =>
        \A r \in 0..(n - 1) :
            root(dsu, r) = r =>
                UNION {Denotes(states[r][x], Component(r)) : x \in 1..Len(states[r])}
                    = Reachable(ExecutedEntries(plan, job - 1), Component(r))

\* C23 witness: a job boundary after a Cmp job, with a component of three wires
\* or more that cannot hold every combination and whose state set has several
\* pairs
C23_Witness ==
    /\ pc = "loop"
    /\ job > 1
    /\ plan[job - 1].kind = "Cmp"
    /\ \E r \in 0..(n - 1) :
          /\ root(dsu, r) = r
          /\ Cardinality(Component(r)) >= 3
          /\ Len(states[r]) >= 3
          /\ Reachable(ExecutedEntries(plan, job - 1), Component(r)) # SUBSET Component(r)

\* no pair occurs twice in the sequence
NoDuplicate(s) == \A x \in 1..Len(s) : \A y \in 1..Len(s) : x # y => s[x] # s[y]

\* C24: at every job boundary, after a Cmp job with or without extension and
\* after a Combine job, no pair (z, o) occurs twice in any states[root].
C24_StatesDeduplicated ==
    pc = "loop" => \A r \in 0..(n - 1) : NoDuplicate(states[r])

\* the pairs an arm leaves: the state itself and the continuations it pushed
OutPairs(r) == {<<r.z, r.o>>} \cup {<<r.stack[k][2], r.stack[k][3]>> : k \in 1..Len(r.stack)}

\* x with the bits a and b exchanged
Exchanged(x, a, b) ==
    (x \ {a, b}) \cup (IF a \in x THEN {b} ELSE {}) \cup (IF b \in x THEN {a} ELSE {})

\* what the claim says the comparator (a, b) makes of the pair (z, o)
ExpectedPairs(z, o, a, b) ==
    IF a \notin o \/ b \notin z THEN {<<z, o>>}
    ELSE IF a \notin z \/ b \notin o THEN {<<Exchanged(z, a, b), Exchanged(o, a, b)>>}
    ELSE {<<z \ {b}, o>>, <<z, o \ {a, b}>>}

\* the assignments of all wires denoted by a set of pairs
DenotedBy(ps) == UNION {Denotes(p, 0..(n - 1)) : p \in ps}

\* an arm's result is as stated, and denotes exactly the images of the
\* assignments of the input pair, the pairs of a split being disjoint
ArmAsStated(r) ==
    /\ OutPairs(r) = ExpectedPairs(arms.z, arms.o, cmp[1][1], cmp[1][2])
    /\ DenotedBy(OutPairs(r))
          = {ApplyComparator(v, cmp[1]) : v \in Denotes(<<arms.z, arms.o>>, 0..(n - 1))}
    /\ \A p \in OutPairs(r) : \A q \in OutPairs(r) :
          p # q => Denotes(p, 0..(n - 1)) \cap Denotes(q, 0..(n - 1)) = {}

\* C25: one comparator (a, b) applied to a pair (z, o) leaves it as it is if
\* bit a of o or bit b of z is 0; else, if bit a of z or bit b of o is 0,
\* exchanges the bits a and b within z and within o; else splits it into
\* (z without b, o) and (z, o without a and b).  The output pairs denote exactly
\* the images of the assignments of the input pair under "min to a, max to b",
\* the two pairs of a split denote disjoint sets, and the in-place arm and the
\* continuation arm give the same result.
C25_ComparatorOnPair ==
    /\ arms.inplace.done => ArmAsStated(arms.inplace.r)
    /\ arms.stack.done => ArmAsStated(arms.stack.r)
    /\ (arms.inplace.done /\ arms.stack.done) => arms.inplace.r = arms.stack.r

\* C25 witness: both arms have split a pair of four wires in which the two
\* wires of the comparator and a third wire are undetermined
C25_Witness ==
    /\ arms.inplace.done /\ arms.stack.done
    /\ Cardinality(OutPairs(arms.inplace.r)) = 2
    /\ Cardinality(arms.z \cap arms.o) >= 3
    /\ n = 4

\* the producer stands at a point where it polls the flag
AtCheckpoint ==
    \/ pc = "loop" /\ job <= Len(plan)
    \/ pc = "scan" /\ \A c \in DOMAIN par : par[c].done
    \/ pc \in {"extended", "sorted", "deduped", "updated"}

\* a worker of the scan has still to run
WorkerPending == pc = "scan" /\ \E c \in DOMAIN par : ~par[c].done

\* C26: if the flag polled by the executor reads true at a checkpoint (the
\* start of a job; in a Cmp job after the scan, after the extension merge, after
\* the sort, after the dedupe, after the result update), the executor sends
\* Cancel and returns at once; after Cancel nothing is sent and nothing is
\* computed, so finalization is skipped.  A worker that reads the flag set
\* returns an empty result and leaves its chunk as it was.
C26_CheckpointCancels ==
    [][/\ (cancel_state /\ AtCheckpoint) =>
              /\ msgs' = Append(msgs, Cancel)
              /\ pc' = "returned"
              /\ result' = result /\ states' = states
       /\ (cancel_state /\ WorkerPending) =>
              /\ states' = states
              /\ \A c \in DOMAIN par :
                    (~par[c].done /\ par'[c].done) =>
                        /\ par'[c].ext = <<>>
                        /\ \A cei \in DOMAIN par'[c].used : ~par'[c].used[cei]
       /\ Sent("Cancel") # {} => (msgs' = msgs /\ pc' = pc /\ result' = result)
       /\ Sent("Cancel")' # {} =>
              /\ msgs'[Len(msgs')] = Cancel
              /\ Sent("Done")' = {}
              /\ result'.unsorted = {}]_vars

\* C26 witness: the executor returned on Cancel from a checkpoint inside a Cmp
\* job whose scan had produced an extension, with jobs left and the workers
\* of the scan having run before the flag was set
C26_Witness ==
    /\ pc = "returned"
    /\ cancel_state
    /\ msgs[Len(msgs)] = Cancel
    /\ job <= Len(plan)
    /\ loc.ext_len > 0
    /\ Len(msgs) >= 3

\* the comparators marked layered, and the number of DSU components, of the
\* planner's locals p
Layered(p) == {i \in 0..(Len(cmp) - 1) : p.cmp_layered[i]}
Components(p) == Cardinality({i \in 0..(n - 1) : root(p.dsu, i) = i})

\* the iteration from p to q layered at least one more comparator and emitted
\* only Cmp jobs, for exactly the comparators it layered
LayersSome(p, q) ==
    /\ Layered(p) \subseteq Layered(q) /\ Layered(q) # Layered(p)
    /\ Components(q) = Components(p)
    /\ Len(q.layers) > Len(p.layers)
    /\ SubSeq(q.layers, 1, Len(p.layers)) = p.layers
    /\ \A j \in (Len(p.layers) + 1)..Len(q.layers) : q.layers[j].kind = "Cmp"
    /\ Layered(q) \ Layered(p) =
          UNION {{q.layers[j].cmp_part[e].cei : e \in 1..Len(q.layers[j].cmp_part)}
                 : j \in (Len(p.layers) + 1)..Len(q.layers)}

\* the iteration from p to q emitted one Combine job and made one component
\* out of two
CombinesOne(p, q) ==
    /\ Layered(q) = Layered(p)
    /\ Components(q) = Components(p) - 1
    /\ Len(q.layers) = Len(p.layers) + 1
    /\ SubSeq(q.layers, 1, Len(p.layers)) = p.layers
    /\ q.layers[Len(q.layers)].kind = "Combine"

\* C27: every iteration of the loop of verify_strategy either layers at least
\* one comparator not layered before, emitting Cmp jobs, or emits one Combine
\* job that lowers the number of DSU components by one (so the loop ends after
\* at most M + n - 1 iterations); the exit on an empty layer without a combine
\* candidate is never taken, and the loop ends only with all M comparators
\* layered.
C27_PlannerTerminates ==
    /\ ~strategy.early
    /\ (pc = "spawn" /\ strategy_running(cmp, strategy)) =>
          LET q == strategy_step(n, cmp, strategy)
          IN /\ ~q.early
             /\ LayersSome(strategy, q) \/ CombinesOne(strategy, q)
    /\ Cardinality(Layered(strategy)) + (n - Components(strategy)) >= 0
    /\ Len(strategy.layers) <= Cardinality(Layered(strategy)) + (n - Components(strategy))
    /\ (pc = "planned" \/ ~strategy_running(cmp, strategy)) =>
          /\ Layered(strategy) = 0..(Len(cmp) - 1)
          /\ strategy.cmp_skip = Len(cmp)

\* C27 witness: a plan returned after iterations of both kinds, one of which
\* layered two comparators at once, for four comparators on four wires
C27_Witness ==
    /\ pc = "planned"
    /\ Len(cmp) = 4
    /\ Components(strategy) = 1
    /\ n = 4
    /\ Len(plan) < Len(cmp) + n - 1

\* the wires still available when the scan of the iteration starting with the
\* locals p comes to comparator i: every comparator scanned before i that was
\* not layered at the start took its two wires away
AvailAt(p, i) ==
    (0..(n - 1)) \ UNION {{CmpAt(cmp, j)[1], CmpAt(cmp, j)[2]} :
                            j \in {x \in p.cmp_skip..(i - 1) : ~p.cmp_layered[x]}}

\* the comparators the scan looks at with both wires available
ScannedFree(p) ==
    {i \in p.cmp_skip..(Len(cmp) - 1) :
        /\ ~p.cmp_layered[i]
        /\ Cardinality(AvailAt(p, i)) >= 2
        /\ {CmpAt(cmp, i)[1], CmpAt(cmp, i)[2]} \subseteq AvailAt(p, i)}

\* of those, the ones inside one component, and the ones across two
Assignable(p) ==
    {i \in ScannedFree(p) : root(p.dsu, CmpAt(cmp, i)[1]) = root(p.dsu, CmpAt(cmp, i)[2])}
Candidates(p) == ScannedFree(p) \ Assignable(p)

\* (size_a + size_b, root_a, root_b) of comparator i
CandidateTuple(p, i) ==
    <<size(p.dsu, CmpAt(cmp, i)[1]) + size(p.dsu, CmpAt(cmp, i)[2]),
      root(p.dsu, CmpAt(cmp, i)[1]), root(p.dsu, CmpAt(cmp, i)[2])>>

\* the lexicographically smallest candidate tuple
BestCandidate(p) ==
    CHOOSE t \in {CandidateTuple(p, i) : i \in Candidates(p)} :
        \A i \in Candidates(p) : t = CandidateTuple(p, i) \/ TupleLess(t, CandidateTuple(p, i))

\* the wires of the component of x
ComponentOf(d, x) == {y \in 0..(n - 1) : root(d, y) = root(d, x)}

\* the iteration from p to q emitted Combine for the best candidate
CombinesBest(p, q) ==
    LET t == BestCandidate(p)
        j == q.layers[Len(q.layers)]
    IN /\ Assignable(p) = {}
       /\ Candidates(p) # {}
       /\ {j.root_master, j.root_slave} = {t[2], t[3]}
       /\ j.root_master # j.root_slave
       /\ j.root_master = root(q.dsu, t[2])
       /\ j.root_master = root(q.dsu, t[3])
       /\ ComponentOf(q.dsu, j.root_master) = ComponentOf(p.dsu, t[2]) \cup ComponentOf(p.dsu, t[3])
       /\ size(q.dsu, j.root_master) = t[1]
       /\ \A x \in (0..(n - 1)) \ ComponentOf(q.dsu, j.root_master) :
              ComponentOf(q.dsu, x) = ComponentOf(p.dsu, x)

\* C28: an iteration of verify_strategy emits a Combine job only when its scan
\* could assign no comparator to a bucket; the job merges the two components
\* of the lexicographically smallest tuple (size_a + size_b, root_a, root_b)
\* among the scanned, not yet layered comparators with both wires available
\* and in different components; root_master is the root of the united
\* component and root_slave the other of the two roots.
C28_CombineBestCandidate ==
    (pc = "spawn" /\ strategy_running(cmp, strategy)) =>
        LET q == strategy_step(n, cmp, strategy)
        IN /\ (Assignable(strategy) = {}) <=>
                  (Len(q.layers) = Len(strategy.layers) + 1
                     /\ q.layers[Len(q.layers)].kind = "Combine")
           /\ Assignable(strategy) = {} => CombinesBest(strategy, q)

\* C28 witness: a scan with two candidates of which the one scanned later has
\* the smaller tuple, after earlier iterations, and the job emitted for it
C28_Witness ==
    /\ pc = "spawn" /\ strategy_running(cmp, strategy)
    /\ strategy.layers # <<>>
    /\ Assignable(strategy) = {}
    /\ \E i, k \in Candidates(strategy) :
          i < k /\ TupleLess(CandidateTuple(strategy, k), CandidateTuple(strategy, i))
    /\ LET q == strategy_step(n, cmp, strategy)
       IN q.layers[Len(q.layers)] =
             CombineJob(root(q.dsu, BestCandidate(strategy)[2]),
                        Xor3(BestCandidate(strategy)[2], BestCandidate(strategy)[3],
                             root(q.dsu, BestCandidate(strategy)[2])))

\* how often the pair p occurs in the sequence s
CountOf(s, p) == Cardinality({x \in 1..Len(s) : s[x] = p})

\* (zm | zs, om | os)
OrPair(mst, slv) == <<mst[1] \cup slv[1], mst[2] \cup slv[2]>>

\* the sequence u holds the collection of OrPair over all elements of master
\* and slave, each combination once
IsProduct(u, master, slave) ==
    /\ Len(u) = Len(master) * Len(slave)
    /\ \A x \in 1..Len(master) : \A y \in 1..Len(slave) :
          CountOf(u, OrPair(master[x], slave[y])) =
             Cardinality({w \in (1..Len(master)) \X (1..Len(slave)) :
                             OrPair(master[w[1]], slave[w[2]]) = OrPair(master[x], slave[y])})
    /\ \A x \in 1..Len(u) : \E a \in 1..Len(master) : \E b \in 1..Len(slave) :
          u[x] = OrPair(master[a], slave[b])

\* C29: the step that ends a Combine{master, slave} job leaves states[slave]
\* empty and states[master] equal to the collection of (zm | zs, om | os) over
\* the old states[master] and the old states[slave], with exactly
\* |old master| * |old slave| elements and without a duplicate when both
\* inputs had none; every other states[r] is unchanged.
C29_CombineProduct ==
    [][(pc = "combine" /\ pc' # "combine") =>
          LET root_master == plan[job].root_master
              root_slave == plan[job].root_slave
          IN /\ states'[root_slave] = <<>>
             /\ IsProduct(states'[root_master], states[root_master], states[root_slave])
             /\ (NoDuplicate(states[root_master]) /\ NoDuplicate(states[root_slave]))
                   => NoDuplicate(states'[root_master])
             /\ \A r \in (0..(n - 1)) \ {root_master, root_slave} : states'[r] = states[r]]_vars

\* C29 witness: a Combine job of two components with several states each has
\* ended and left the product in the master
C29_Witness ==
    /\ pc = "loop" /\ job > 1
    /\ plan[job - 1].kind = "Combine"
    /\ states[plan[job - 1].root_slave] = <<>>
    /\ Len(states[plan[job - 1].root_master]) >= 4
    /\ NoDuplicate(states[plan[job - 1].root_master])

\* root is a current root of the executor's DSU
CurrentRoot(r) == root(dsu, r) = r

\* C30: the executor's DSU agrees with the planner's on the roots: when a
\* Combine{master, slave} job is taken both are current roots, after
\* unite(master, slave) the root of the merged component is master, also for
\* two components of equal size, and when a Cmp{root, entries} job is taken
\* root is a current root whose component holds both wires of every entry.
C30_ExecutorDsuInStep ==
    /\ (pc = "loop" /\ job <= Len(plan) /\ plan[job].kind = "Combine") =>
          /\ CurrentRoot(plan[job].root_master)
          /\ CurrentRoot(plan[job].root_slave)
          /\ plan[job].root_master # plan[job].root_slave
          /\ unite(dsu, plan[job].root_master, plan[job].root_slave).ok
    /\ pc = "combine" =>
          /\ CurrentRoot(plan[job].root_master)
          /\ root(dsu, plan[job].root_slave) = plan[job].root_master
          /\ size(dsu, plan[job].root_master) = loc.conn_nodes[1] + loc.conn_nodes[2]
    /\ ((pc = "loop" /\ job <= Len(plan)) \/ pc = "scan") =>
          (plan[job].kind = "Cmp" =>
             /\ CurrentRoot(plan[job].root)
             /\ \A e \in 1..Len(plan[job].cmp_part) :
                   /\ equiv(dsu, plan[job].root, plan[job].cmp_part[e].a)
                   /\ equiv(dsu, plan[job].root, plan[job].cmp_part[e].b))

\* C30 witness: unite has just joined two components of two wires each, the
\* master being the one with the larger root index
C30_Witness ==
    /\ pc = "combine"
    /\ loc.conn_nodes = <<2, 2>>
    /\ root(dsu, plan[job].root_slave) = plan[job].root_master
    /\ plan[job].root_master > plan[job].root_slave

\* ------------------------------------------------ DsuBySize, call by call
\* A DsuBySize of 2 .. MaxN elements under any sequence of calls of unite and
\* root_size; loc holds the last call and what it returned.
DsuCall(name, u, v, ret) == [call |-> name, u |-> u, v |-> v, ret |-> ret]

InitDsu == \E k \in 2..MaxN : InitAll(k, <<>>, "dsu", "none", <<>>, NoArms)

\* dsu.unite(u, v)
DsuUnite(u, v) ==
    /\ pc = "dsu"
    /\ dsu' = unite(dsu, u, v).dsu
    /\ loc' = DsuCall("unite", u, v, unite(dsu, u, v).ok)
    /\ UNCHANGED <<n, cmp, pc, plan, job, result, checked_cmp, used_cmp, states, par,
                   united_status, msgs, cancel_state, strategy>>
    /\ UNCHANGED <<holder, host>>

\* dsu.root_size(u)
DsuRootSize(u) ==
    /\ pc = "dsu"
    /\ dsu' = root_size(dsu, u).dsu
    /\ loc' = DsuCall("root_size", u, u, <<root_size(dsu, u).root, root_size(dsu, u).size>>)
    /\ UNCHANGED <<n, cmp, pc, plan, job, result, checked_cmp, used_cmp, states, par,
                   united_status, msgs, cancel_state, strategy>>
    /\ UNCHANGED <<holder, host>>

NextDsu ==
    \/ \E u \in 0..(n - 1) : \E v \in 0..(n - 1) : DsuUnite(u, v)
    \/ \E u \in 0..(n - 1) : DsuRootSize(u)

SpecDsu == InitDsu /\ [][NextDsu]_vars

\* the elements one parent link away from the set S, and S
Linked(d, S) ==
    S \cup {d[x].v : x \in {y \in S : d[y].k = "Parent"}}
      \cup {x \in DOMAIN d : d[x].k = "Parent" /\ d[x].v \in S}

RECURSIVE LinkedWithin(_, _, _)
LinkedWithin(d, S, k) == IF k = 0 THEN S ELSE LinkedWithin(d, Linked(d, S), k - 1)

\* the set of u: everything joined to u by parent links, in either direction
SetOf(d, u) == LinkedWithin(d, {u}, Cardinality(DOMAIN d))
Sets(d) == {SetOf(d, u) : u \in DOMAIN d}

\* root_size(u) names an element of u's set that holds a Size, gives the
\* number of elements of the set, and leaves every root and every set alone
RootSizeExact(d, u) ==
    LET r == root_size(d, u)
    IN /\ r.root \in SetOf(d, u)
       /\ d[r.root].k = "Size"
       /\ \A x \in SetOf(d, u) : root_size(d, x).root = r.root
       /\ r.size = Cardinality(SetOf(d, u))
       /\ \A x \in DOMAIN d : root_size(r.dsu, x).root = root_size(d, x).root
       /\ \A x \in DOMAIN d : root_size(r.dsu, x).size = root_size(d, x).size
       /\ Sets(r.dsu) = Sets(d)

\* unite(u, v) as the claim states it
UniteAsStated(d, u, v) ==
    LET t == unite(d, u, v)
        su == SetOf(d, u)
        sv == SetOf(d, v)
    IN IF su = sv
       THEN /\ ~t.ok
            /\ Sets(t.dsu) = Sets(d)
            /\ \A x \in DOMAIN d : root_size(t.dsu, x).root = root_size(d, x).root
       ELSE /\ t.ok
            /\ Sets(t.dsu) = (Sets(d) \ {su, sv}) \cup {su \cup sv}
            /\ Cardinality(Sets(t.dsu)) = Cardinality(Sets(d)) - 1
            /\ root_size(t.dsu, u).root =
                  IF Cardinality(su) < Cardinality(sv)
                  THEN root_size(d, v).root ELSE root_size(d, u).root
            /\ root_size(t.dsu, v).root = root_size(t.dsu, u).root
            /\ root_size(t.dsu, u).size = Cardinality(su) + Cardinality(sv)

\* C31: in every DsuBySize reached by a sequence of unite and root_size
\* calls, unite(u, v) returns false and changes no set when u and v are in
\* one set; otherwise it returns true, hangs the root of the smaller set under
\* the root of the larger (the root of u's set survives on equal sizes) and
\* makes one set fewer; root_size(u) returns the root of u's set and the exact
\* number of its elements, and path compression changes no element's root.
C31_DsuBySizeExact ==
    pc = "dsu" =>
        /\ \A u \in 0..(n - 1) : RootSizeExact(dsu, u)
        /\ \A u \in 0..(n - 1) : \A v \in 0..(n - 1) : UniteAsStated(dsu, u, v)

\* C31 witness: unite has just joined the last two sets of four elements, a
\* chain of two parent links exists, and the first argument was not a root
C31_Witness ==
    /\ pc = "dsu" /\ n = 4
    /\ loc # NoLoc
    /\ loc.call = "unite" /\ loc.ret = TRUE
    /\ Cardinality(Sets(dsu)) = 1
    /\ \E x \in 0..(n - 1) : dsu[x].k = "Parent" /\ dsu[dsu[x].v].k = "Parent"
    /\ root_size(dsu, loc.u).root # loc.u
    /\ root_size(dsu, loc.u).size = 4

\* C32: at every job boundary every pair (z, o) of states[root] has z | o equal
\* to the set of wires of root's DSU component: each wire of the component has
\* its bit in z or in o and no other bit is set, so z | o of the first pair,
\* which the finalization takes as q_mask, is z | o of every pair.
C32_SupportIsComponent ==
    pc = "loop" =>
        \A r \in 0..(n - 1) :
            /\ root(dsu, r) = r =>
                  \A x \in 1..Len(states[r]) : Support(states[r][x]) = Component(r)
            /\ \A x \in 1..Len(states[r]) : Support(states[r][x]) = Support(states[r][1])

\* C32 witness: a job boundary after Combine and Cmp jobs, with a component of
\* three wires or more whose pairs differ and do not all have z = o
C32_Witness ==
    /\ pc = "loop" /\ job > 2
    /\ \E r \in 0..(n - 1) :
          /\ root(dsu, r) = r
          /\ Cardinality(Component(r)) >= 3
          /\ Len(states[r]) >= 3
          /\ \E x \in 1..Len(states[r]) : states[r][x][1] # states[r][x][2]
          /\ \E x \in 1..Len(states[r]) : states[r][x][1] \cap states[r][x][2] = {}

\* the comparators with 0-based indices i and k have a wire in common
ShareWire(i, k) == {CmpAt(cmp, i)[1], CmpAt(cmp, i)[2]} \cap {CmpAt(cmp, k)[1], CmpAt(cmp, k)[2]} # {}

\* the place <<job, entry>> q comes before the place r in execution order
PlaceBefore(q, r) == q[1] < r[1] \/ (q[1] = r[1] /\ q[2] < r[2])

\* C33: the plan keeps the original order on every wire: of two comparators
\* with original indices i < k that share a wire, i is in an earlier Cmp job
\* than k, or in an earlier entry of the same job; while the plan is built k is
\* never layered before i.
C33_WireOrderKept ==
    \A i \in 0..(Len(cmp) - 1) : \A k \in 0..(Len(cmp) - 1) :
        (i < k /\ ShareWire(i, k)) =>
            /\ strategy.cmp_layered[k] => strategy.cmp_layered[i]
            /\ Occurrences(strategy.layers, k) # {} => Occurrences(strategy.layers, i) # {}
            /\ \A q \in Occurrences(strategy.layers, i) :
                  \A r \in Occurrences(strategy.layers, k) : PlaceBefore(q, r)

\* C33 witness: a returned plan that moved a later comparator before an
\* earlier one that shares no wire with it, and that holds two comparators
\* sharing a wire that are not neighbours in the input
C33_Witness ==
    /\ pc = "planned"
    /\ \E i \in 0..(Len(cmp) - 1) : \E k \in 0..(Len(cmp) - 1) :
          /\ i < k /\ ~ShareWire(i, k)
          /\ \E q \in Occurrences(plan, i) : \E r \in Occurrences(plan, k) : PlaceBefore(r, q)
    /\ \E i \in 0..(Len(cmp) - 1) : \E k \in 0..(Len(cmp) - 1) :
          /\ i + 1 < k /\ ShareWire(i, k)
          /\ \E q \in Occurrences(plan, i) : \E r \in Occurrences(plan, k) : PlaceBefore(q, r)

\* the entries <<job, entry>> of the jobs lo .. hi of layers
EntriesOf(layers, lo, hi) ==
    {q \in (lo..hi) \X (1..Len(cmp)) :
        layers[q[1]].kind = "Cmp" /\ q[2] <= Len(layers[q[1]].cmp_part)}

\* the wires of the entry at place q
WiresAt(layers, q) == {layers[q[1]].cmp_part[q[2]].a, layers[q[1]].cmp_part[q[2]].b}

\* the entries of the jobs lo .. hi are pairwise wire-disjoint
WireDisjoint(layers, lo, hi) ==
    \A q \in EntriesOf(layers, lo, hi) : \A r \in EntriesOf(layers, lo, hi) :
        q # r => WiresAt(layers, q) \cap WiresAt(layers, r) = {}

\* C34: the comparators of all Cmp jobs that one layer scan of verify_strategy
\* emits are pairwise wire-disjoint; the entries of a single Cmp job share no
\* wire, and a job on a component of s wires has at most s / 2 entries.
C34_LayerWireDisjoint ==
    /\ (pc = "spawn" /\ strategy_running(cmp, strategy)) =>
          LET q == strategy_step(n, cmp, strategy)
          IN WireDisjoint(q.layers, Len(strategy.layers) + 1, Len(q.layers))
    /\ \A j \in 1..Len(strategy.layers) :
          strategy.layers[j].kind = "Cmp" =>
              /\ WireDisjoint(strategy.layers, j, j)
              /\ 2 * Len(strategy.layers[j].cmp_part)
                    <= size(UnionsBefore(strategy.layers, j - 1), strategy.layers[j].root)

\* C34 witness: the next scan emits a Cmp job of two entries on a component of
\* four wires, after a job of one entry on a component of two
C34_Witness ==
    /\ pc = "spawn" /\ strategy_running(cmp, strategy)
    /\ \E j \in 1..Len(strategy.layers) :
          /\ strategy.layers[j].kind = "Cmp"
          /\ size(UnionsBefore(strategy.layers, j - 1), strategy.layers[j].root) = 2
    /\ LET q == strategy_step(n, cmp, strategy)
       IN /\ Len(q.layers) = Len(strategy.layers) + 1
          /\ q.layers[Len(q.layers)].kind = "Cmp"
          /\ Len(q.layers[Len(q.layers)].cmp_part) = 2
          /\ size(q.dsu, q.layers[Len(q.layers)].root) = 4

\* the last job of a non-empty list of jobs
LastJob(layers) == layers[Len(layers)]

\* C35: every Combine{master, slave} job is followed at once by exactly one
\* Cmp job, whose root is master: the scan after a Combine fills a single
\* bucket; so the loop never ends after a Combine and a non-empty plan ends
\* with a Cmp job.
C35_CmpFollowsCombine ==
    /\ (strategy.layers # <<>> /\ LastJob(strategy.layers).kind = "Combine") =>
          /\ pc = "spawn" /\ strategy_running(cmp, strategy)
          /\ LET q == strategy_step(n, cmp, strategy)
             IN /\ Len(q.layers) = Len(strategy.layers) + 1
                /\ LastJob(q.layers).kind = "Cmp"
                /\ LastJob(q.layers).root = LastJob(strategy.layers).root_master
                /\ LastJob(q.layers).cmp_part # <<>>
    /\ pc = "planned" =>
          /\ plan # <<>> => LastJob(plan).kind = "Cmp"
          /\ \A j \in 1..Len(plan) :
                plan[j].kind = "Combine" =>
                    /\ j < Len(plan)
                    /\ plan[j + 1].kind = "Cmp"
                    /\ plan[j + 1].root = plan[j].root_master

\* C35 witness: a returned plan with a Combine of two components of two wires
\* followed by a Cmp job of two entries, the third Combine of the plan
C35_Witness ==
    /\ pc = "planned"
    /\ \E j \in 1..(Len(plan) - 1) :
          /\ plan[j].kind = "Combine"
          /\ plan[j + 1].kind = "Cmp" /\ Len(plan[j + 1].cmp_part) = 2
          /\ Cardinality({k \in 1..j : plan[k].kind = "Combine"}) = 3

\* C36: at every job boundary states[r] is non-empty exactly when r is a
\* current root of the executor's DSU; the master of a Combine job holds at
\* least one pair when the job is taken (master_len, the chunk size handed to
\* par_chunks_mut, is not 0), and the roots of the jobs still to come have
\* their states, so an emptied slave is not read again.
C36_StatesIffRoot ==
    /\ pc = "loop" =>
          /\ \A r \in 0..(n - 1) : (states[r] # <<>>) <=> (root(dsu, r) = r)
          /\ job <= Len(plan) =>
                IF plan[job].kind = "Combine"
                THEN states[plan[job].root_master] # <<>> /\ states[plan[job].root_slave] # <<>>
                ELSE states[plan[job].root] # <<>>
    /\ pc = "combine" =>
          /\ Len(states[plan[job].root_master]) >= 1
          /\ Len(states[plan[job].root_slave]) >= 1
    /\ pc = "scan" => states[plan[job].root] # <<>>
    /\ pc # "panicked"

\* C36 witness: a job boundary with two components of two wires each, the two
\* emptied slaves, and a Combine of the two components as the next job
C36_Witness ==
    /\ pc = "loop" /\ job <= Len(plan)
    /\ plan[job].kind = "Combine"
    /\ Cardinality({r \in 0..(n - 1) : states[r] = <<>>}) = 2
    /\ Cardinality({r \in 0..(n - 1) : Len(states[r]) >= 2}) = 2

\* ------------------------------ the command on valid and on invalid texts
\* a text parse_network rejects: one wire
TextN1 == <<"1", "0", NL, NL, NL>>

InitInvoke == \E text \in {TextS1, TextS2, TextN1} : InitText(text)

\* one invocation of sorting_network_verify on a valid or an invalid text,
\* its producer, and the id store of a later invocation
SpecInvoke == InitInvoke /\ [][NextHost]_vars

\* the places in emitted of the terminal events
TerminalEvents ==
    Emitted("Done") \cup Emitted("Cencelled") \cup Emitted("CancelRecv") \cup Emitted("Error")

\* C37: an invocation of sorting_network_verify emits at most one terminal
\* event (Done, Cencelled, CancelRecv or Error) and nothing after it; until it
\* returns it or its producer can take a step, and when it has returned it has
\* emitted exactly one; when the terminal event is Done, a Progress event with
\* branches = max_branches was emitted before it.
C37_OneTerminalEventLast ==
    /\ Cardinality(TerminalEvents) <= 1
    /\ \A k \in TerminalEvents : k = Len(emitted) /\ host_pc = "returned"
    /\ host_pc = "returned" => Cardinality(TerminalEvents) = 1
    /\ host_pc # "returned" => (pc = "spawn" \/ ENABLED (Host \/ Producer))
    /\ Emitted("Done") # {} =>
          \E k \in Emitted("Progress") :
              /\ k < Len(emitted)
              /\ emitted[k].branches = emitted[k].max_branches
              /\ \A l \in Emitted("Progress") : l <= k

\* C37 witness: the command returned with Done after several Progress events,
\* the last of them with the drawing of the final snapshot
C37_Witness ==
    /\ host_pc = "returned"
    /\ emitted[Len(emitted)] = DoneEvent
    /\ Cardinality(Emitted("Progress")) >= 2
    /\ Len(cmp) = 3
    /\ emitted[Len(emitted) - 1].type = "Progress"
    /\ emitted[Len(emitted) - 1].svg = gen_svg(last_progress)

\* a Progress or a Log, as a message of the producer or as an emitted event
CarriesLog(x) == x.type \in {"Progress", "Log"}

\* the log String of a message of the producer
LogOfMessage(m) == IF m.type = "Progress" THEN Text(m.result.log) ELSE Text(m.log)

\* the Strings of the sequence ts joined by "\n"
RECURSIVE JoinedByNewline(_)
JoinedByNewline(ts) ==
    IF ts = <<>> THEN <<>>
    ELSE IF Len(ts) = 1 THEN ts[1]
    ELSE ts[1] \o <<"\n">> \o JoinedByNewline(Tail(ts))

\* the logs of the emitted Progress and Log events, and of the Progress and
\* Log messages sent, each in order
EmittedLogs ==
    LET evs == SelectSeq(emitted, CarriesLog) IN [k \in 1..Len(evs) |-> evs[k].log]
SentLogs ==
    LET ms == SelectSeq(msgs, CarriesLog) IN [k \in 1..Len(ms) |-> LogOfMessage(ms[k])]

\* the JobResult of the latest Progress among the first k messages
LatestProgress(k) ==
    msgs[CHOOSE i \in 1..k : msgs[i].type = "Progress"
                              /\ \A l \in (i + 1)..k : msgs[l].type # "Progress"].result

\* the last emitted event that is a Progress or a Log
LastCarrier == LET evs == SelectSeq(emitted, CarriesLog) IN evs[Len(evs)]

\* C38: coalescing loses and reorders no log text: when the invocation ends
\* with Done, the logs of the emitted Progress and Log events joined by
\* newlines are the logs of all Progress and Log messages of the producer
\* joined by newlines, in the producer's order; and a Progress event, when it
\* has just been emitted, carries used, unsorted and progress of the latest
\* Progress message received.
C38_CoalescingKeepsLogs ==
    /\ (host_pc = "returned" /\ Emitted("Done") # {}) =>
          /\ JoinedByNewline(EmittedLogs) = JoinedByNewline(SentLogs)
          /\ rx_pos = Len(msgs)
    /\ ((host_pc = "check_bottom" \/ (host_pc = "returned" /\ Emitted("Done") # {}))
          /\ Emitted("Progress") # {} /\ LastCarrier.type = "Progress") =>
          LET res == LatestProgress(rx_pos)
          IN /\ LastCarrier.used = res.used
             /\ LastCarrier.unsorted = res.unsorted
             /\ LastCarrier.branches = res.progress
             /\ LastCarrier.max_branches = res.progress_all

\* C38 witness: the command ended with Done after it emitted fewer events
\* than the producer sent messages, one of them a Progress that absorbed a
\* Log before it and still has the text of both
C38_Witness ==
    /\ host_pc = "returned" /\ Emitted("Done") # {}
    /\ Len(EmittedLogs) >= 2
    /\ Len(EmittedLogs) < Len(SentLogs)
    /\ \E k \in Emitted("Progress") :
          /\ Len(emitted[k].log) = 3
          /\ emitted[k].log[1][1] = "Combining"
          /\ emitted[k].log[2] = "\n"

====
